---- MODULE Spec2Model ----
(***************************************************************************)
(* A state-machine model of the bcolz carray extension (carray_ext.pyx):   *)
(* the chunk, the in-memory and on-disk chunk stores, and the carray with  *)
(* its leftover buffer, block cache and persistent metadata.               *)
(*                                                                         *)
(* The whole program state is one record `w` (the "world"):                *)
(*   w.chunks   the Python list used as chunk store by in-memory carrays   *)
(*   w.store    the `chunks` object of a persistent carray                 *)
(*   w.files    data/__<i>.blp : index -> Blosc buffer                     *)
(*   w.sizes    meta/sizes,  w.storage  meta/storage                       *)
(*   w.a        the fields of the carray object                            *)
(*   w.exc      the exception raised by the operation in progress          *)
(* Every method is an operator from worlds to worlds, so that a method     *)
(* that calls another one (resize -> append -> flush) is the composition.  *)
(* Rows are small integers; a Blosc buffer is the record of its header     *)
(* fields and the rows it decompresses to.                                 *)
(***************************************************************************)
EXTENDS Integers, Sequences, FiniteSets, TLC

VARIABLES w, op, ret
vars == <<w, op, ret>>

(* ------------------------------ bounds -------------------------------- *)
MaxLen == 4          \* no operation grows the array beyond MaxLen rows
MaxDiskLen == 3      \* ... and a persistent array beyond MaxDiskLen rows
MaxAppend == 3       \* longest array handed to append
MaxInit == 3         \* longest array handed to the constructor
MaxVal == 1          \* rows of a non-boolean array are 0..MaxVal
MaxStep == 3         \* largest slice step
itemsize == 2        \* bytes per element (dtype.base.itemsize)
ChunkLen == 2        \* the chunklen argument of the constructor
BloscBlockRows == 1  \* rows per block chosen by the Blosc compressor
MaxDrift == 1        \* the cbytes counter is followed up to MaxDrift chunk
                     \* sizes away from the bytes actually stored

atomsize == itemsize \* unidimensional arrays: one element per row

(* ------------------------- program constants -------------------------- *)
BLOSC_HEADER_LENGTH == 16
CONST_BLOCKSIZE == 4096
MAXINT == 2147483647

(* ------------------------------ helpers ------------------------------- *)
Min(a, b) == IF a < b THEN a ELSE b
Max(a, b) == IF a > b THEN a ELSE b

\* cython.cdiv / cython.cmod: C division, truncating towards zero
cdiv(a, b) == IF a >= 0 THEN a \div b ELSE -((-a) \div b)
cmod(a, b) == a - b * cdiv(a, b)

RECURSIVE SumSeq(_)
SumSeq(s) ==
    IF Len(s) = 0 THEN 0
    ELSE IF Len(s) = 1 THEN s[1]
    ELSE SumSeq(SubSeq(s, 1, Len(s) \div 2))
         + SumSeq(SubSeq(s, Len(s) \div 2 + 1, Len(s)))

Zeros(n) == [i \in 1..n |-> 0]
Repeat(v, n) == [i \in 1..n |-> v]

\* rows[i:j] with Python's clamping, 0 <= i
PySlice(rows, i, j) == SubSeq(rows, i + 1, Min(j, Len(rows)))

\* rows[start:stop:step] for 0 <= start, stop <= Len(rows), step > 0
Strided(rows, start, stop, step) ==
    LET n == IF start < stop THEN ((stop - start - 1) \div step) + 1 ELSE 0
    IN [k \in 1..n |-> rows[start + (k - 1) * step + 1]]

\* dst[start:stop:step] = src   (len(src) = number of selected positions)
StridedSet(dst, start, stop, step, src) ==
    [i \in 1..Len(dst) |->
        IF (i - 1) >= start /\ (i - 1) < stop /\ ((i - 1) - start) % step = 0
        THEN src[(((i - 1) - start) \div step) + 1]
        ELSE dst[i]]

\* dst[at:at+len(src)] = src
Overlay(dst, at, src) ==
    [i \in 1..Len(dst) |->
        IF i > at /\ i <= at + Len(src) THEN src[i - at] ELSE dst[i]]

\* A NumPy array handed to the library: its rows, and whether its leading
\* stride is 0 (one element broadcast over the whole length).
Arr(rows) == [rows |-> rows, stride0 |-> FALSE]
Broadcast(v, n) == [rows |-> Repeat(v, n), stride0 |-> TRUE]
ArrSlice(array, i, j) ==
    [rows |-> PySlice(array.rows, i, j), stride0 |-> array.stride0]

\* slice(start, stop, step).indices(len) for step > 0; None is <<>>,
\* an integer n is <<n>>
slice_start(start, len) ==
    IF start = <<>> THEN 0
    ELSE IF start[1] < 0 THEN Max(start[1] + len, 0)
    ELSE Min(start[1], len)
slice_stop(stop, len) ==
    IF stop = <<>> THEN len
    ELSE IF stop[1] < 0 THEN Max(stop[1] + len, 0)
    ELSE Min(stop[1], len)
slice_step(step) == IF step = <<>> THEN 1 ELSE step[1]

(* --------------------------- module functions -------------------------- *)
get_len_of_range(start, stop, step) ==
    IF start < stop THEN ((stop - start - 1) \div step) + 1 ELSE 0

\* clip_chunk without the alignment of startb to the step
clip_chunk_unaligned(nchunk, chunklen, start, stop, step) ==
    LET startb0 == start - nchunk * chunklen
        stopb0 == stop - nchunk * chunklen
    IN IF startb0 >= chunklen \/ stopb0 <= 0 THEN <<startb0, stopb0, 0>>
       ELSE LET startb == IF startb0 < 0 THEN 0 ELSE startb0
                stopb == IF stopb0 > chunklen THEN chunklen ELSE stopb0
            IN <<startb, stopb, get_len_of_range(startb, stopb, step)>>

\* returns <<startb, stopb, blen>>
clip_chunk(nchunk, chunklen, start, stop, step) ==
    LET startb0 == start - nchunk * chunklen
        stopb0 == stop - nchunk * chunklen
    IN IF startb0 >= chunklen \/ stopb0 <= 0 THEN <<startb0, stopb0, 0>>
       ELSE LET startb1 == IF startb0 < 0 THEN 0 ELSE startb0
                stopb == IF stopb0 > chunklen THEN chunklen ELSE stopb0
                distance == (nchunk * chunklen + startb1) - start
                startb == IF step > 1 /\ distance % step > 0
                          THEN startb1 + (step - (distance % step))
                          ELSE startb1
            IN IF startb > chunklen THEN <<startb, stopb, 0>>
               ELSE <<startb, stopb, get_len_of_range(startb, stopb, step)>>

check_zeros(rows) == \A i \in 1..Len(rows) : rows[i] = 0

true_count(rows) == SumSeq(rows)

(* ------------------------------ Blosc --------------------------------- *)
\* The compressor is external: a buffer is modelled by its header fields
\* and its payload.  cbytes depends on the data (header plus one item per
\* run of equal rows); blocksize is the block the compressor chose.
NoBuf == [data |-> <<>>, nbytes |-> 0, cbytes |-> 0, blocksize |-> 0]

blosc_cbytes(rows) ==
    BLOSC_HEADER_LENGTH
    + itemsize * Cardinality({i \in 1..Len(rows) : i = 1 \/ rows[i] # rows[i - 1]})

blosc_blocksize(nbytes) == Min(nbytes, BloscBlockRows * itemsize)

(* ------------------------------- chunk -------------------------------- *)
compress_data(rows) ==
    [data |-> rows,
     nbytes |-> Len(rows) * itemsize,
     cbytes |-> blosc_cbytes(rows),
     blocksize |-> blosc_blocksize(Len(rows) * itemsize)]

\* blocksize of a constant chunk: 4 KB, made a multiple of itemsize
const_blocksize ==
    LET b == IF CONST_BLOCKSIZE % itemsize > 0
             THEN cdiv(CONST_BLOCKSIZE, itemsize) * itemsize
             ELSE CONST_BLOCKSIZE
    IN IF b = 0 THEN itemsize ELSE b

\* compress_arrdata that finds a constant in a stride-0 array only
compress_arrdata_stride(array, isbool, memory) ==
    IF memory /\ array.stride0
    THEN [isconstant |-> TRUE, constant |-> array.rows[1], dobject |-> NoBuf,
          nbytes |-> itemsize * Len(array.rows), cbytes |-> 0,
          blocksize |-> const_blocksize, true_count |-> 0]
    ELSE LET buf == compress_data(array.rows)
         IN [isconstant |-> FALSE, constant |-> 0, dobject |-> buf,
             nbytes |-> itemsize * Len(array.rows), cbytes |-> buf.cbytes,
             blocksize |-> buf.blocksize,
             true_count |-> IF isbool THEN true_count(array.rows) ELSE 0]

\* chunk(array, atom, cparams, _memory): compress_arrdata.  The constant of
\* a chunk that is not constant is None (0 here, never read).
compress_arrdata(array, isbool, memory) ==
    IF memory /\ (array.stride0 \/ check_zeros(array.rows))
    THEN [isconstant |-> TRUE, constant |-> array.rows[1], dobject |-> NoBuf,
          nbytes |-> itemsize * Len(array.rows), cbytes |-> 0,
          blocksize |-> const_blocksize, true_count |-> 0]
    ELSE LET buf == compress_data(array.rows)
         IN [isconstant |-> FALSE, constant |-> 0, dobject |-> buf,
             nbytes |-> itemsize * Len(array.rows), cbytes |-> buf.cbytes,
             blocksize |-> buf.blocksize,
             true_count |-> IF isbool THEN true_count(array.rows) ELSE 0]

\* chunk(dobject, atom, cparams, _memory=False, _compr=True): the sizes come
\* from the buffer header, every other field keeps its initial value
chunk_compr(buf) ==
    [isconstant |-> FALSE, constant |-> 0, dobject |-> buf,
     nbytes |-> buf.nbytes, cbytes |-> buf.cbytes, blocksize |-> buf.blocksize,
     true_count |-> 0]

NoChunk == chunk_compr(NoBuf)

\* chunk._getitem(start, stop, dest): the rows written to dest
chunk_getitem(chunk_, start, stop) ==
    IF chunk_.isconstant THEN Repeat(chunk_.constant, stop - start)
    ELSE SubSeq(chunk_.dobject.data, start + 1, stop)

\* _get_use_threads(): the module switch use_threads (None is <<>>), and
\* whether the calling thread is the main thread
get_use_threads(use_threads, main_thread) ==
    IF use_threads # <<>> THEN use_threads[1] ELSE main_thread

\* The Blosc function each call site of the codec runs: compress_data
\* ("compress"), getudata ("getudata"), _getitem of rows start to stop of
\* chunk_ ("getitem"; a constant chunk is copied, not decoded), and the
\* read of the last chunk in chunks.__cinit__ ("open")
blosc_call(site, chunk_, start, stop, use_threads, main_thread) ==
    CASE site = "compress" ->
            IF get_use_threads(use_threads, main_thread)
            THEN "blosc_compress" ELSE "blosc_compress_ctx"
      [] site = "getudata" ->
            IF get_use_threads(use_threads, main_thread)
            THEN "blosc_decompress" ELSE "blosc_decompress_ctx"
      [] site = "getitem" ->
            IF chunk_.isconstant THEN "memcpy"
            ELSE IF (stop - start) * atomsize = chunk_.nbytes
            THEN "blosc_decompress" ELSE "blosc_getitem"
      [] site = "open" -> "blosc_decompress"

\* chunk.__getitem__(slice(start, stop, step)); None is <<>>
chunk_slice(chunk_, start, stop, step) ==
    LET clen == cdiv(chunk_.nbytes, atomsize)
        s0 == slice_start(start, clen)
        s1 == slice_stop(stop, clen)
        rows == chunk_getitem(chunk_, s0, Max(s0, s1))
    IN Strided(rows, 0, Len(rows), step)

(* ------------------------ on-disk chunk store -------------------------- *)
\* Operators that return a value next to the new world return [w, r].
Raise(wd, e) == [wd EXCEPT !.exc = e]
Ok(wd) == wd.exc = "none"

FileWrite(files, n, buf) ==
    [i \in DOMAIN files \cup {n} |-> IF i = n THEN buf ELSE files[i]]
FileRemove(files, n) == [i \in DOMAIN files \ {n} |-> files[i]]

\* chunks.read_chunk; a file that holds no Blosc header (NoBuf) makes
\* decode_blosc_header index an empty buffer
read_chunk(wd, nchunk) ==
    IF nchunk \notin DOMAIN wd.files
    THEN [w |-> Raise(wd, "ValueError"), r |-> NoBuf]
    ELSE IF wd.files[nchunk] = NoBuf
    THEN [w |-> Raise(wd, "IndexError"), r |-> NoBuf]
    ELSE [w |-> wd, r |-> wd.files[nchunk]]

\* chunks.__getitem__
store_getitem(wd, nchunk) ==
    IF nchunk = wd.store.nchunk_cached
    THEN [w |-> wd, r |-> wd.store.chunk_cached]
    ELSE LET rd == read_chunk(wd, nchunk)
         IN IF ~Ok(rd.w) THEN [w |-> rd.w, r |-> NoChunk]
            ELSE [w |-> [wd EXCEPT !.store.nchunk_cached = nchunk,
                                   !.store.chunk_cached = chunk_compr(rd.r)],
                  r |-> chunk_compr(rd.r)]

\* chunks._save.  getdata() of a constant chunk returns its dobject, which
\* was never set: the file is opened, the bloscpack header written, and
\* writing None raises TypeError.
store_save(wd, nchunk, chunk_) ==
    IF wd.store.mode = "r" THEN Raise(wd, "IOError")
    ELSE IF chunk_.isconstant
    THEN Raise([wd EXCEPT !.files = FileWrite(@, nchunk, NoBuf)], "TypeError")
    ELSE [wd EXCEPT !.files = FileWrite(@, nchunk, chunk_.dobject),
                    !.store.nchunk_cached =
                        IF nchunk = @ THEN -1 ELSE @]

\* chunks.append
store_append(wd, chunk_) ==
    LET w1 == store_save(wd, wd.store.nchunks, chunk_)
    IN IF ~Ok(w1) THEN w1 ELSE [w1 EXCEPT !.store.nchunks = @ + 1]

\* chunks.flush
store_flush(wd, chunk_) == store_save(wd, wd.store.nchunks, chunk_)

\* chunks.pop
store_pop(wd) ==
    LET nchunk == wd.store.nchunks - 1
        g == store_getitem(wd, nchunk)
    IN IF ~Ok(g.w) THEN g
       ELSE IF nchunk \notin DOMAIN g.w.files
       THEN [w |-> Raise(g.w, "IOError"), r |-> NoChunk]
       ELSE [w |-> [g.w EXCEPT
                      !.files = FileRemove(FileRemove(@, nchunk), nchunk + 1),
                      !.store.nchunks = @ - 1],
             r |-> g.r]

(* --------- the chunk store of a carray: a list or a `chunks` ----------- *)
\* a.ondisk tells that self.chunks is a `chunks` object and not a list;
\* a.rootdir that self._rootdir is set.  The two differ in a view only.
chunks_len(wd) == IF wd.a.ondisk THEN wd.store.nchunks ELSE Len(wd.chunks)

\* self.chunks[nchunk]; a list counts a negative index from its end
chunks_get(wd, nchunk) ==
    IF wd.a.ondisk THEN store_getitem(wd, nchunk)
    ELSE IF nchunk < -Len(wd.chunks) \/ nchunk >= Len(wd.chunks)
    THEN [w |-> Raise(wd, "IndexError"), r |-> NoChunk]
    ELSE [w |-> wd,
          r |-> wd.chunks[(IF nchunk < 0 THEN nchunk + Len(wd.chunks)
                           ELSE nchunk) + 1]]

chunks_set(wd, nchunk, chunk_) ==
    IF wd.a.ondisk THEN store_save(wd, nchunk, chunk_)
    ELSE IF nchunk < -Len(wd.chunks) \/ nchunk >= Len(wd.chunks)
    THEN Raise(wd, "IndexError")
    ELSE [wd EXCEPT !.chunks[(IF nchunk < 0 THEN nchunk + Len(wd.chunks)
                              ELSE nchunk) + 1] = chunk_]

chunks_append(wd, chunk_) ==
    IF wd.a.ondisk THEN store_append(wd, chunk_)
    ELSE [wd EXCEPT !.chunks = Append(@, chunk_)]

chunks_pop(wd) ==
    IF wd.a.ondisk THEN store_pop(wd)
    ELSE IF wd.chunks = <<>>
    THEN [w |-> Raise(wd, "IndexError"), r |-> NoChunk]
    ELSE [w |-> [wd EXCEPT !.chunks = SubSeq(@, 1, Len(@) - 1)],
          r |-> wd.chunks[Len(wd.chunks)]]

(* ------------------------------- carray -------------------------------- *)
len(wd) == cdiv(wd.a.nbytes, atomsize)
chunksize(wd) == wd.a.chunklen * atomsize
nchunks(wd) == cdiv(wd.a.nbytes, chunksize(wd))
nleftover(wd) == cdiv(wd.a.leftover, atomsize)

\* chunk(array, self._dtype, self._cparams, _memory=self._rootdir is None)
mkchunk(wd, array) == compress_arrdata(array, wd.a.isbool, ~wd.a.rootdir)

\* carray._update_disk_sizes
update_disk_sizes(wd) ==
    IF wd.a.rootdir
    THEN [wd EXCEPT !.sizes = [shape |-> len(wd), nbytes |-> wd.a.nbytes,
                               cbytes |-> wd.a.cbytes]]
    ELSE wd

\* flush that writes the sizes but not the leftover buffer
flush_sizes(wd) == update_disk_sizes(wd)

\* flush that writes the leftover buffer also when it is empty
flush_always(wd) ==
    IF ~wd.a.rootdir THEN wd
    ELSE LET leftover_atoms == cdiv(wd.a.leftover, atomsize)
             w1 == store_flush(wd, mkchunk(wd,
                       Arr(SubSeq(wd.a.lastchunkarr, 1, leftover_atoms))))
         IN IF ~Ok(w1) THEN w1 ELSE update_disk_sizes(w1)

\* carray.flush
flush(wd) ==
    IF ~wd.a.rootdir THEN wd
    ELSE LET leftover_atoms == cdiv(wd.a.leftover, atomsize)
             w1 == IF wd.a.leftover # 0
                   THEN store_flush(wd, mkchunk(wd,
                            Arr(SubSeq(wd.a.lastchunkarr, 1, leftover_atoms))))
                   ELSE wd
         IN IF ~Ok(w1) THEN w1 ELSE update_disk_sizes(w1)

\* the loops of append and _fill_chunks that compress full chunks out of
\* `remainder`; returns the world and the compressed bytes added
RECURSIVE append_chunks(_, _, _, _, _)
append_chunks(wd, remainder, i, n, cbytes) ==
    IF i >= n THEN [w |-> wd, r |-> cbytes]
    ELSE LET chunk_ == mkchunk(wd, ArrSlice(remainder, i * wd.a.chunklen,
                                            (i + 1) * wd.a.chunklen))
             w1 == chunks_append(wd, chunk_)
         IN IF ~Ok(w1) THEN [w |-> w1, r |-> cbytes]
            ELSE append_chunks(w1, remainder, i + 1, n, cbytes + chunk_.cbytes)

\* lastchunkarr[start:stop] = src, NumPy assignment of a stride-0 source:
\* the shapes must agree or the source must have one row
np_assign_ok(dstlen, src) == Len(src) = dstlen \/ Len(src) = 1
np_assign(dst, start, stop, src) ==
    [i \in 1..Len(dst) |->
        IF i > start /\ i <= stop
        THEN (IF Len(src) = 1 THEN src[1] ELSE src[i - start])
        ELSE dst[i]]

\* append_fits without the update of the byte count
append_fits_stale(wd, arrcpy) ==
    LET leftover == wd.a.leftover
        bsize == Len(arrcpy.rows) * itemsize
        start == cdiv(leftover, atomsize)
    IN [wd EXCEPT !.a.lastchunkarr = Overlay(@, start, arrcpy.rows),
                  !.a.leftover = leftover + bsize]

\* append, first branch: the data fits in the leftover buffer
append_fits(wd, arrcpy) ==
    LET leftover == wd.a.leftover
        bsize == Len(arrcpy.rows) * itemsize
        start == cdiv(leftover, atomsize)
    IN [wd EXCEPT !.a.lastchunkarr = Overlay(@, start, arrcpy.rows),
                  !.a.leftover = leftover + bsize,
                  !.a.nbytes = @ + bsize]

\* append, second branch: fill the buffer, compress it, compress the full
\* chunks of the rest and keep the remainder in the buffer
append_breaks(wd, arrcpy) ==
    LET leftover == wd.a.leftover
        bsize == Len(arrcpy.rows) * itemsize
        nbytesfirst == IF leftover # 0 THEN chunksize(wd) - leftover ELSE 0
        start == cdiv(leftover, atomsize)
        stop == cdiv(leftover + nbytesfirst, atomsize)
        first == IF arrcpy.stride0 THEN PySlice(arrcpy.rows, start, stop)
                 ELSE SubSeq(arrcpy.rows, 1, cdiv(nbytesfirst, atomsize))
    IN IF leftover # 0 /\ arrcpy.stride0 /\ ~np_assign_ok(stop - start, first)
       THEN Raise(wd, "ValueError")
       ELSE
       LET w1 == IF leftover # 0
                 THEN [wd EXCEPT !.a.lastchunkarr =
                          IF arrcpy.stride0 THEN np_assign(@, start, stop, first)
                          ELSE Overlay(@, start, first)]
                 ELSE wd
           chunk_ == mkchunk(w1, Arr(w1.a.lastchunkarr))
           w2 == IF leftover # 0 THEN chunks_append(w1, chunk_) ELSE w1
           cbytes0 == IF leftover # 0 THEN chunk_.cbytes ELSE 0
       IN IF ~Ok(w2) THEN w2
          ELSE
          LET nbytes == bsize - nbytesfirst
              n == cdiv(nbytes, chunksize(wd))
              remainder == ArrSlice(arrcpy, cdiv(nbytesfirst, atomsize),
                                    Len(arrcpy.rows))
              lp == append_chunks(w2, remainder, 0, n, cbytes0)
              leftover2 == cmod(nbytes, chunksize(wd))
              rest == PySlice(remainder.rows, n * wd.a.chunklen,
                              Len(remainder.rows))
          IN IF ~Ok(lp.w) THEN lp.w
             ELSE [lp.w EXCEPT
                     !.a.lastchunkarr =
                         IF leftover2 # 0 THEN Overlay(@, 0, rest) ELSE @,
                     !.a.leftover = leftover2,
                     !.a.cbytes = @ + lp.r,
                     !.a.nbytes = @ + bsize]

\* carray.append that writes meta/sizes as well, which append leaves to flush
append_sizes(wd, arrcpy) ==
    IF wd.a.safe /\ wd.a.mode = "r" THEN Raise(wd, "IOError")
    ELSE IF Len(arrcpy.rows) * itemsize + wd.a.leftover < chunksize(wd)
    THEN update_disk_sizes(append_fits(wd, arrcpy))
    ELSE update_disk_sizes(append_breaks(wd, arrcpy))

\* carray.append (arrays of a non-object dtype matching self)
append(wd, arrcpy) ==
    IF wd.a.safe /\ wd.a.mode = "r" THEN Raise(wd, "IOError")
    ELSE IF Len(arrcpy.rows) * itemsize + wd.a.leftover < chunksize(wd)
    THEN append_fits(wd, arrcpy)
    ELSE append_breaks(wd, arrcpy)

\* trim: chunks.pop() until nchunk chunks are left; returns the world, the
\* compressed bytes removed and the last chunk popped
RECURSIVE trim_pop(_, _, _, _, _)
trim_pop(wd, nchunk2, nchunk, cbytes, last) ==
    IF nchunk2 <= nchunk THEN [w |-> wd, r |-> cbytes, chunk_ |-> last]
    ELSE LET p == chunks_pop(wd)
         IN IF ~Ok(p.w) THEN [w |-> p.w, r |-> cbytes, chunk_ |-> last]
            ELSE trim_pop(p.w, nchunk2 - 1, nchunk, cbytes + p.r.cbytes, p.r)

\* trim_body that leaves the leftover buffer as it was instead of filling
\* it from the last chunk popped
trim_body_notail(wd, nitems) ==
    LET leftover == wd.a.leftover
        bsize == nitems * atomsize
    IN IF leftover - bsize > 0
       THEN [wd EXCEPT !.a.leftover = leftover - bsize,
                       !.a.nbytes = @ - bsize]
       ELSE
       LET nchunk == cdiv(len(wd) - nitems, wd.a.chunklen)
           leftover2 == cmod(len(wd) - nitems, wd.a.chunklen)
           lp == trim_pop(wd, nchunks(wd), nchunk, 0, NoChunk)
       IN IF ~Ok(lp.w) THEN lp.w
          ELSE [lp.w EXCEPT
                  !.a.leftover = leftover2 * atomsize,
                  !.a.cbytes = @ - (lp.r + IF leftover2 # 0 /\ wd.a.rootdir
                                           THEN lp.chunk_.nbytes ELSE 0),
                  !.a.nbytes = @ - bsize]

\* carray.trim for nitems > 0, up to the final flush
trim_body(wd, nitems) ==
    LET leftover == wd.a.leftover
        bsize == nitems * atomsize
    IN IF leftover - bsize > 0
       THEN [wd EXCEPT !.a.leftover = leftover - bsize,
                       !.a.nbytes = @ - bsize]
       ELSE
       LET nchunk == cdiv(len(wd) - nitems, wd.a.chunklen)
           leftover2 == cmod(len(wd) - nitems, wd.a.chunklen)
           lp == trim_pop(wd, nchunks(wd), nchunk, 0, NoChunk)
       IN IF ~Ok(lp.w) THEN lp.w
          ELSE [lp.w EXCEPT
                  !.a.lastchunkarr =
                      IF leftover2 # 0
                      THEN Overlay(@, 0, chunk_slice(lp.chunk_, <<>>,
                                                     <<leftover2>>, 1))
                      ELSE @,
                  !.a.leftover = leftover2 * atomsize,
                  !.a.cbytes = @ - (lp.r + IF leftover2 # 0 /\ wd.a.rootdir
                                           THEN lp.chunk_.nbytes ELSE 0),
                  !.a.nbytes = @ - bsize]

\* carray.trim and carray.resize call each other
RECURSIVE trim(_, _), resize(_, _)
trim(wd, nitems) ==
    IF nitems > len(wd) THEN Raise(wd, "ValueError")
    ELSE IF nitems <= 0 THEN resize(wd, len(wd) - nitems)
    ELSE LET w1 == trim_body(wd, nitems)
         IN IF ~Ok(w1) THEN w1 ELSE flush(w1)

\* resize that enlarges with zeros instead of dflt
resize_zeros(wd, nitems) ==
    IF nitems = len(wd) THEN wd
    ELSE IF nitems < 0 THEN Raise(wd, "ValueError")
    ELSE IF nitems > len(wd)
    THEN LET w1 == append(wd, Arr(Zeros(nitems - len(wd))))
         IN IF ~Ok(w1) THEN w1 ELSE flush(w1)
    ELSE trim(wd, len(wd) - nitems)

resize(wd, nitems) ==
    IF nitems = len(wd) THEN wd
    ELSE IF nitems < 0 THEN Raise(wd, "ValueError")
    ELSE IF nitems > len(wd)
    THEN LET w1 == append(wd, Arr(Repeat(wd.a.dflt, nitems - len(wd))))
         IN IF ~Ok(w1) THEN w1 ELSE flush(w1)
    ELSE trim(wd, len(wd) - nitems)

(* ------------------------------- reading ------------------------------- *)
\* carray.getitem_cache(pos, dest).  Returns the world, the row copied to
\* dest, the int returned (ok) and whether a copy ran outside the memory of
\* the cache block (ub).  a.cachelen is the number of rows the block was
\* allocated for, a.blockcache the rows the last miss wrote into it; over
\* tells that the miss decoded more rows than the block was allocated for.
getitem_cache(wd, pos0) ==
    LET chunklen == wd.a.chunklen
        nchunk == cdiv(pos0, chunklen)
        pos == pos0 - nchunk * chunklen
    IN IF nchunk = nchunks(wd) /\ wd.a.leftover # 0
       THEN [w |-> wd, r |-> wd.a.lastchunkarr[(pos % chunklen) + 1],
             ok |-> TRUE, ub |-> FALSE,
             over |-> FALSE]
       ELSE
       LET g == chunks_get(wd, nchunk)
           blocksize == g.r.blocksize
           blocklen == cdiv(blocksize, atomsize)
       IN IF ~Ok(g.w) THEN [w |-> g.w, r |-> 0, ok |-> TRUE, ub |-> FALSE,
             over |-> FALSE]
          ELSE IF atomsize > blocksize
          THEN [w |-> g.w, r |-> 0, ok |-> FALSE, ub |-> FALSE,
             over |-> FALSE]
          ELSE
          LET w1 == IF g.w.a.idxcache < 0
                    THEN [g.w EXCEPT !.a.cachelen = blocklen,
                                     !.a.blockcache = <<>>]
                    ELSE g.w
              offset == cdiv(pos, blocklen) * blocklen
              p == pos % blocklen
              idxcache == nchunk * chunklen + offset
          IN IF idxcache = w1.a.idxcache
             THEN [w |-> w1,
                   r |-> IF p < Len(w1.a.blockcache)
                         THEN w1.a.blockcache[p + 1] ELSE 0,
                   ok |-> TRUE, ub |-> p >= Len(w1.a.blockcache),
                   over |-> FALSE]
             ELSE
             LET extent == IF offset + blocklen > chunklen
                           THEN chunklen % blocklen ELSE blocklen
                 block == chunk_getitem(g.r, offset, offset + extent)
             IN [w |-> [w1 EXCEPT !.a.blockcache = block,
                                  !.a.idxcache = idxcache],
                 r |-> IF p < Len(block) THEN block[p + 1] ELSE 0,
                 ok |-> TRUE,
                 ub |-> extent > w1.a.cachelen \/ p >= Len(block),
                 over |-> extent > w1.a.cachelen]

\* carray.__getitem__(slice), the loop over the chunks; arr holds the rows
\* written so far (rows nwrow.. of the container are not yet written)
RECURSIVE getitem_chunks(_, _, _, _, _, _, _, _)
getitem_chunks(wd, nchunk, last_chunk, nchunks_, start, stop, step, arr) ==
    IF nchunk >= last_chunk THEN [w |-> wd, r |-> arr, ub |-> FALSE]
    ELSE
    LET c == clip_chunk(nchunk, wd.a.chunklen, start, stop, step)
        startb == c[1]
        stopb == c[2]
    IN IF c[3] = 0
       THEN getitem_chunks(wd, nchunk + 1, last_chunk, nchunks_,
                           start, stop, step, arr)
       ELSE IF nchunk = nchunks_ - 1 /\ wd.a.leftover # 0
       THEN getitem_chunks(wd, nchunk + 1, last_chunk, nchunks_,
                           start, stop, step,
                           arr \o Strided(wd.a.lastchunkarr, startb, stopb, step))
       ELSE
       LET g == chunks_get(wd, nchunk)
           rows == IF step > 1
                   THEN chunk_slice(g.r, <<startb>>, <<stopb>>, step)
                   ELSE chunk_getitem(g.r, startb, stopb)
       IN IF ~Ok(g.w) THEN [w |-> g.w, r |-> <<>>, ub |-> FALSE]
          ELSE getitem_chunks(g.w, nchunk + 1, last_chunk, nchunks_,
                              start, stop, step, arr \o rows)

\* carray.__getitem__(slice(start, stop, step)); None is <<>>
getitem_slice(wd, start_, stop_, step_) ==
    IF step_ # <<>> /\ step_[1] < 0
    THEN [w |-> Raise(wd, "NotImplementedError"), r |-> <<>>, ub |-> FALSE]
    ELSE IF step_ = <<0>>
    THEN [w |-> Raise(wd, "ValueError"), r |-> <<>>, ub |-> FALSE]
    ELSE
    LET start == slice_start(start_, len(wd))
        stop == slice_stop(stop_, len(wd))
        step == slice_step(step_)
        blen == get_len_of_range(start, stop, step)
        nchunks_ == nchunks(wd) + (IF wd.a.leftover > 0 THEN 1 ELSE 0)
        first_chunk == cdiv(start, wd.a.chunklen)
        last_chunk == Min(cdiv(stop, wd.a.chunklen) + 1, nchunks_)
    IN IF blen = 0 THEN [w |-> wd, r |-> <<>>, ub |-> FALSE]
       ELSE getitem_chunks(wd, first_chunk, last_chunk, nchunks_,
                           start, stop, step, <<>>)

\* carray.__getitem__(key) for an integer key; the value read is <<row>>
getitem_int(wd, key0) ==
    LET key == IF key0 < 0 THEN key0 + len(wd) ELSE key0
    IN IF key >= len(wd)
       THEN [w |-> Raise(wd, "IndexError"), r |-> <<>>, ub |-> FALSE]
       ELSE LET c == getitem_cache(wd, key)
            IN IF ~Ok(c.w) THEN [w |-> c.w, r |-> <<>>, ub |-> FALSE]
               ELSE IF c.ok THEN [w |-> c.w, r |-> <<c.r>>, ub |-> c.ub]
               ELSE getitem_slice(c.w, <<key>>, <<key + 1>>, <<1>>)

\* carray.sum(): the loop over the chunks of the store
RECURSIVE sum_chunks(_, _, _)
sum_chunks(wd, i, result) ==
    IF i >= chunks_len(wd) THEN [w |-> wd, r |-> result]
    ELSE LET g == chunks_get(wd, i)
         IN IF ~Ok(g.w) THEN [w |-> g.w, r |-> result]
            ELSE sum_chunks(g.w, i + 1,
                     result + (IF g.r.isconstant
                               THEN g.r.constant * wd.a.chunklen
                               ELSE IF wd.a.isbool THEN g.r.true_count
                               ELSE SumSeq(chunk_slice(g.r, <<>>, <<>>, 1))))

sum(wd) ==
    LET lp == sum_chunks(wd, 0, 0)
        leftover == len(wd) - nchunks(wd) * wd.a.chunklen
    IN IF ~Ok(lp.w) \/ wd.a.leftover = 0 THEN lp
       ELSE [w |-> lp.w,
             r |-> lp.r + SumSeq(PySlice(wd.a.lastchunkarr, 0, leftover))]

(* ------------------------------- writing ------------------------------- *)
\* carray._set_entire_carray(value), the loop that replaces every chunk
RECURSIVE set_entire_chunks(_, _, _, _)
set_entire_chunks(wd, value, nchunk, nchunks_) ==
    IF nchunk >= nchunks_ THEN wd
    ELSE LET cdata == ArrSlice(value, nchunk * wd.a.chunklen,
                               (nchunk + 1) * wd.a.chunklen)
             chunk_ == mkchunk(wd, cdata)
             w1 == chunks_set(wd, nchunk, chunk_)
         IN IF ~Ok(w1) THEN w1
            ELSE set_entire_chunks([w1 EXCEPT !.a.cbytes = @ + chunk_.cbytes],
                                   value, nchunk + 1, nchunks_)

set_entire_carray(wd, value) ==
    LET w0 == [wd EXCEPT !.a.nbytes = itemsize * Len(value.rows)]
        chunklen == w0.a.chunklen
        nchunks_ == nchunks(w0)
        w1 == set_entire_chunks([w0 EXCEPT !.a.cbytes = chunksize(w0)],
                                value, 0, nchunks_)
    IN IF ~Ok(w1) \/ w1.a.leftover = 0 THEN w1
       ELSE [w1 EXCEPT !.a.lastchunkarr =
                Overlay(@, 0, PySlice(PySlice(value.rows, nchunks_ * chunklen,
                                              Len(value.rows)),
                                      0, len(w1) - nchunks_ * chunklen))]

\* carray.__setitem__, the loop over the chunks; value holds vlen rows
RECURSIVE setitem_chunks(_, _, _, _, _, _, _, _, _)
setitem_chunks(wd, nchunk, last_chunk, nchunks_, start, stop, step, value, nwrow) ==
    IF nchunk >= last_chunk
    THEN (IF nwrow = Len(value.rows) THEN wd ELSE Raise(wd, "AssertionError"))
    ELSE
    LET chunklen == wd.a.chunklen
        c == clip_chunk(nchunk, chunklen, start, stop, step)
        startb == c[1]
        stopb == c[2]
        blen == c[3]
        part == ArrSlice(value, nwrow, nwrow + blen)
    IN IF blen = 0
       THEN setitem_chunks(wd, nchunk + 1, last_chunk, nchunks_,
                           start, stop, step, value, nwrow)
       ELSE IF nchunk = nchunks_ - 1 /\ wd.a.leftover # 0
       THEN setitem_chunks(
                [wd EXCEPT !.a.lastchunkarr =
                     StridedSet(@, startb, stopb, step, part.rows)],
                nchunk + 1, last_chunk, nchunks_, start, stop, step,
                value, nwrow + blen)
       ELSE
       LET g == chunks_get(wd, nchunk)
           w1 == [g.w EXCEPT !.a.cbytes = @ - g.r.cbytes]
           cdata == IF stopb - startb < chunklen \/ step > 1
                    THEN Arr(StridedSet(chunk_slice(g.r, <<>>, <<>>, 1),
                                        startb, stopb, step, part.rows))
                    ELSE part
           chunk_ == mkchunk(w1, cdata)
           w2 == chunks_set(w1, nchunk, chunk_)
       IN IF ~Ok(g.w) THEN g.w
          ELSE IF ~Ok(w2) THEN w2
          ELSE setitem_chunks([w2 EXCEPT !.a.cbytes = @ + chunk_.cbytes],
                              nchunk + 1, last_chunk, nchunks_,
                              start, stop, step, value, nwrow + blen)

\* setitem_range whose last_chunk is stop / chunklen, without the + 1
setitem_range_short(wd, start_, stop_, step_, value, hasdtype) ==
    LET start == slice_start(start_, len(wd))
        stop == slice_stop(stop_, len(wd))
        step == slice_step(step_)
        vlen == get_len_of_range(start, stop, step)
        nchunks_ == nchunks(wd) + (IF wd.a.leftover > 0 THEN 1 ELSE 0)
        first_chunk == cdiv(start, wd.a.chunklen)
        last_chunk == Min(cdiv(stop, wd.a.chunklen), nchunks_)
    IN IF hasdtype /\ start = 0 /\ stop = len(wd)
          /\ len(wd) = Len(value.rows) /\ step = 1
       THEN set_entire_carray(wd, value)
       ELSE IF vlen = 0 THEN wd
       ELSE setitem_chunks(wd, first_chunk, last_chunk, nchunks_,
                           start, stop, step, value, 0)

\* carray.__setitem__ from the normalisation of (start, stop, step) on.
\* value is the array to_ndarray makes of the caller's value (vlen rows);
\* hasdtype tells whether the caller's value was a NumPy array of the dtype
\* of self rather than a list or a scalar.
setitem_range(wd, start_, stop_, step_, value, hasdtype) ==
    LET start == slice_start(start_, len(wd))
        stop == slice_stop(stop_, len(wd))
        step == slice_step(step_)
        vlen == get_len_of_range(start, stop, step)
        nchunks_ == nchunks(wd) + (IF wd.a.leftover > 0 THEN 1 ELSE 0)
        first_chunk == cdiv(start, wd.a.chunklen)
        last_chunk == Min(cdiv(stop, wd.a.chunklen) + 1, nchunks_)
    IN IF hasdtype /\ start = 0 /\ stop = len(wd)
          /\ len(wd) = Len(value.rows) /\ step = 1
       THEN set_entire_carray(wd, value)
       ELSE IF vlen = 0 THEN wd
       ELSE setitem_chunks(wd, first_chunk, last_chunk, nchunks_,
                           start, stop, step, value, 0)

\* setitem_enter that keeps the block cache
setitem_enter_keep(wd) ==
    IF wd.a.mode = "r" THEN Raise(wd, "IOError") ELSE wd

\* carray.__setitem__ up to the key: the mode and the block cache
setitem_enter(wd) ==
    IF wd.a.mode = "r" THEN Raise(wd, "IOError")
    ELSE IF wd.a.idxcache >= 0 THEN [wd EXCEPT !.a.idxcache = -2]
    ELSE wd

\* carray.__setitem__(key, value) for an integer key
setitem_int(wd, key0, value, hasdtype) ==
    LET w1 == setitem_enter(wd)
        key == IF key0 < 0 THEN key0 + len(wd) ELSE key0
    IN IF ~Ok(w1) THEN w1
       ELSE IF key >= len(wd) THEN Raise(w1, "IndexError")
       ELSE setitem_range(w1, <<key>>, <<key + 1>>, <<1>>, value, hasdtype)

\* cdata[boolb] = src: the rows where boolb is true take the rows of src
MaskSet(dst, boolb, src) ==
    [i \in 1..Len(dst) |->
        IF boolb[i] = 1 THEN src[SumSeq(SubSeq(boolb, 1, i))] ELSE dst[i]]

\* carray.bool_update(boolarr, value), the loop over the chunks; boolarr is
\* a sequence of 0 (False) and 1 (True), value holds boolarr.sum() rows
RECURSIVE bool_update_chunks(_, _, _, _, _, _)
bool_update_chunks(wd, nchunk, nchunks_, boolarr, value, nwrow) ==
    IF nchunk >= nchunks_
    THEN (IF nwrow = Len(value) THEN wd ELSE Raise(wd, "AssertionError"))
    ELSE
    LET chunklen == wd.a.chunklen
        c == clip_chunk(nchunk, chunklen, 0, len(wd), 1)
        n == nchunk * chunklen
        boolb == PySlice(boolarr, n + c[1], n + c[2])
        blen == SumSeq(boolb)
        part == SubSeq(value, nwrow + 1, nwrow + blen)
    IN IF blen = 0
       THEN bool_update_chunks(wd, nchunk + 1, nchunks_, boolarr, value, nwrow)
       ELSE IF nchunk = nchunks_ - 1 /\ wd.a.leftover # 0
       THEN bool_update_chunks(
                [wd EXCEPT !.a.lastchunkarr =
                     Overlay(@, 0, MaskSet(PySlice(@, 0, Len(boolb)),
                                           boolb, part))],
                nchunk + 1, nchunks_, boolarr, value, nwrow + blen)
       ELSE
       LET g == chunks_get(wd, nchunk)
           w1 == [g.w EXCEPT !.a.cbytes = @ - g.r.cbytes]
           cdata == MaskSet(chunk_slice(g.r, <<>>, <<>>, 1), boolb, part)
           chunk_ == mkchunk(w1, Arr(cdata))
           w2 == chunks_set(w1, nchunk, chunk_)
       IN IF ~Ok(g.w) THEN g.w
          ELSE IF ~Ok(w2) THEN w2
          ELSE bool_update_chunks([w2 EXCEPT !.a.cbytes = @ + chunk_.cbytes],
                                  nchunk + 1, nchunks_, boolarr, value,
                                  nwrow + blen)

\* bool_update that leaves the leftover buffer out of the loop
bool_update_notail(wd, boolarr, value) ==
    bool_update_chunks(wd, 0, nchunks(wd), boolarr, value, 0)

bool_update(wd, boolarr, value) ==
    bool_update_chunks(wd, 0,
                       nchunks(wd) + (IF wd.a.leftover > 0 THEN 1 ELSE 0),
                       boolarr, value, 0)

\* carray.__setitem__(key, value) for a boolean array key
setitem_mask(wd, boolarr, value) ==
    LET w1 == setitem_enter(wd)
    IN IF ~Ok(w1) THEN w1
       ELSE IF Len(boolarr) # len(wd) THEN Raise(w1, "ValueError")
       ELSE bool_update(w1, boolarr, value)

\* carray.__setitem__(slice(start, stop, step), value); None is <<>>
setitem_slice(wd, start_, stop_, step_, value, hasdtype) ==
    LET w1 == setitem_enter(wd)
    IN IF ~Ok(w1) THEN w1
       ELSE IF step_ # <<>> /\ step_[1] < 0
       THEN Raise(w1, "NotImplementedError")
       ELSE IF step_ = <<0>> THEN Raise(w1, "ValueError")
       ELSE setitem_range(w1, start_, stop_, step_, value, hasdtype)

\* carray.__setitem__(key, value) for an array of integers key: value is
\* made an array of len(key) rows and self[item] = value[i] runs for each.
\* value[i] is a NumPy scalar of the dtype of self, so the test for a
\* complete replacement reaches len(value), a TypeError, when item selects
\* rows 0 to len(self).
RECURSIVE setitem_items(_, _, _, _)
setitem_items(wd, key, value, i) ==
    IF i > Len(key) THEN wd
    ELSE LET item == IF key[i] < 0 THEN key[i] + len(wd) ELSE key[i]
             whole == /\ item < len(wd)
                      /\ slice_start(<<item>>, len(wd)) = 0
                      /\ slice_stop(<<item + 1>>, len(wd)) = len(wd)
             w1 == IF whole THEN Raise(setitem_enter(wd), "TypeError")
                   ELSE setitem_int(wd, key[i], Arr(<<value.rows[i]>>), FALSE)
         IN IF ~Ok(w1) THEN w1 ELSE setitem_items(w1, key, value, i + 1)

setitem_index(wd, key, value) ==
    LET w1 == setitem_enter(wd)
    IN IF ~Ok(w1) THEN w1 ELSE setitem_items(w1, key, value, 1)

(* --------------------- construction and opening ------------------------ *)
\* bcolz.cparams(...), and the cparams argument of the constructor
cparams(clevel, shuffle, cname, quantize) ==
    [clevel |-> clevel, shuffle |-> shuffle, cname |-> cname,
     quantize |-> quantize]
CparamsArg == cparams(5, 1, "lz4", 0)

\* _write_meta and _read_meta: the storage file, written and read field
\* by field
write_meta(a) ==
    [isbool |-> a.isbool,
     cparams |-> [clevel |-> a.cparams.clevel, shuffle |-> a.cparams.shuffle,
                  cname |-> a.cparams.cname, quantize |-> a.cparams.quantize],
     chunklen |-> a.chunklen, expectedlen |-> a.expectedlen, dflt |-> a.dflt]
read_meta_cparams(storage) ==
    cparams(storage.cparams.clevel, storage.cparams.shuffle,
            storage.cparams.cname, storage.cparams.quantize)

EmptyFiles == [i \in {} |-> NoBuf]
NoSizes == [shape |-> 0, nbytes |-> 0, cbytes |-> 0]

\* The iterator fields of the view that iter(), where() and wheretrue()
\* make of the carray (w.it).  The view shares the chunks of the carray, so
\* it reads what the carray holds.  No view exists while mode is "none".
NoMask == [kind |-> "none"]
NoIter ==
    [mode |-> "none", where_arr |-> NoMask, nhits |-> 0, limit |-> MAXINT,
     skip |-> 0, start |-> 0, stop |-> 0, step |-> 1,
     iter_exhausted |-> FALSE, startb |-> 0, nrowsread |-> 0, nrow |-> 0,
     row |-> -1, nrowsinbuf |-> 0, stopb |-> 0, nextelement |-> 0,
     iobuf |-> <<>>, where_buf |-> <<>>]

\* The iterator fields of the carray itself (w.self_it): __cinit__ clears
\* the three mode flags and leaves the others as allocated, zero.
NoSelfIter == [NoIter EXCEPT !.limit = 0, !.step = 0]

\* chunks.__cinit__ for a new store, and the state of a list store
new_store(mode) ==
    [nchunks |-> 0, nchunk_cached |-> -1, chunk_cached |-> NoChunk,
     mode |-> mode]

\* carray._fill_chunks
fill_chunks(wd, array_) ==
    LET nbytes == itemsize * Len(array_.rows)
        w1 == [wd EXCEPT !.a.nbytes = nbytes]
        n == cdiv(nbytes, chunksize(wd))
        lp == append_chunks(w1, array_, 0, n, 0)
        leftover == cmod(nbytes, chunksize(wd))
    IN IF ~Ok(lp.w) THEN lp.w
       ELSE [lp.w EXCEPT
               !.a.leftover = leftover,
               !.a.lastchunkarr =
                   IF leftover # 0
                   THEN Overlay(@, 0, PySlice(array_.rows, n * wd.a.chunklen,
                                              Len(array_.rows)))
                   ELSE @,
               !.a.cbytes = lp.r + chunksize(wd)]

\* carray.__cinit__ with an array: _create_carray, then the sentinels
create_carray(array, dflt, isbool, chunklen, persistent, mode) ==
    LET a0 == [rootdir |-> persistent, ondisk |-> persistent,
               mode |-> mode, safe |-> TRUE,
               isbool |-> isbool, chunklen |-> chunklen, dflt |-> dflt,
               expectedlen |-> MaxLen, cparams |-> CparamsArg,
               lastchunkarr |-> Zeros(chunklen),
               leftover |-> 0, nbytes |-> 0, cbytes |-> 0,
               idxcache |-> -1, cachelen |-> 0, blockcache |-> <<>>]
        w0 == [chunks |-> <<>>, store |-> new_store(mode),
               files |-> EmptyFiles, sizes |-> NoSizes,
               storage |-> write_meta(a0),
               a |-> a0, it |-> NoIter, self_it |-> NoSelfIter,
               exc |-> "none"]
        w1 == fill_chunks(w0, array)
    IN IF ~Ok(w1) THEN w1 ELSE flush(w1)

\* _open_carray without the resize(0) of mode "w"
open_carray_keep(wd, mode) ==
    LET shape == wd.sizes.shape
        chunklen == wd.storage.chunklen
        n == cdiv(shape, chunklen)
        leftover == cmod(shape, chunklen) * atomsize
        a0 == [rootdir |-> TRUE, ondisk |-> TRUE,
               mode |-> mode, safe |-> TRUE,
               isbool |-> wd.storage.isbool, chunklen |-> chunklen,
               dflt |-> wd.storage.dflt,
               expectedlen |-> wd.storage.expectedlen,
               cparams |-> read_meta_cparams(wd.storage),
               lastchunkarr |-> Zeros(chunklen),
               leftover |-> leftover, nbytes |-> shape * atomsize,
               cbytes |-> wd.sizes.cbytes,
               idxcache |-> -1, cachelen |-> 0, blockcache |-> <<>>]
        w0 == [chunks |-> <<>>,
               store |-> [new_store(mode) EXCEPT !.nchunks = n],
               files |-> wd.files, sizes |-> wd.sizes, storage |-> wd.storage,
               a |-> a0, it |-> NoIter, self_it |-> NoSelfIter,
               exc |-> "none"]
        rd == read_chunk(w0, n)
    IN IF leftover # 0 /\ ~Ok(rd.w) THEN rd.w
       ELSE LET w1 == IF leftover # 0
                      THEN [w0 EXCEPT !.a.lastchunkarr = Overlay(@, 0, rd.r.data)]
                      ELSE w0
            IN w1

\* carray.__cinit__ with a rootdir only: _read_meta, _open_carray (with
\* chunks.__cinit__ reading the last chunk), then the sentinels
open_carray(wd, mode) ==
    LET shape == wd.sizes.shape
        chunklen == wd.storage.chunklen
        n == cdiv(shape, chunklen)
        leftover == cmod(shape, chunklen) * atomsize
        a0 == [rootdir |-> TRUE, ondisk |-> TRUE,
               mode |-> mode, safe |-> TRUE,
               isbool |-> wd.storage.isbool, chunklen |-> chunklen,
               dflt |-> wd.storage.dflt,
               expectedlen |-> wd.storage.expectedlen,
               cparams |-> read_meta_cparams(wd.storage),
               lastchunkarr |-> Zeros(chunklen),
               leftover |-> leftover, nbytes |-> shape * atomsize,
               cbytes |-> wd.sizes.cbytes,
               idxcache |-> -1, cachelen |-> 0, blockcache |-> <<>>]
        w0 == [chunks |-> <<>>,
               store |-> [new_store(mode) EXCEPT !.nchunks = n],
               files |-> wd.files, sizes |-> wd.sizes, storage |-> wd.storage,
               a |-> a0, it |-> NoIter, self_it |-> NoSelfIter,
               exc |-> "none"]
        rd == read_chunk(w0, n)
    IN IF leftover # 0 /\ ~Ok(rd.w) THEN rd.w
       ELSE LET w1 == IF leftover # 0
                      THEN [w0 EXCEPT !.a.lastchunkarr = Overlay(@, 0, rd.r.data)]
                      ELSE w0
            IN IF mode = "w" THEN resize(w1, 0) ELSE w1

\* carray.view up to the tail: a new in-memory carray (mode "a", no
\* rootdir, an empty block cache) takes the sizes and the chunks of self
\* in _open_carray; its own lastchunkarr is booked, zeroed
view_zeros(wd) ==
    [wd EXCEPT
       !.a = [rootdir |-> FALSE, ondisk |-> wd.a.ondisk,
              mode |-> "a", safe |-> TRUE,
              isbool |-> wd.a.isbool, chunklen |-> wd.a.chunklen,
              dflt |-> wd.a.dflt, expectedlen |-> wd.a.expectedlen,
              cparams |-> wd.a.cparams,
              lastchunkarr |-> Zeros(wd.a.chunklen),
              leftover |-> cmod(len(wd), wd.a.chunklen) * atomsize,
              nbytes |-> len(wd) * atomsize, cbytes |-> wd.a.cbytes,
              idxcache |-> -1, cachelen |-> 0, blockcache |-> <<>>],
       !.it = NoIter,
       !.self_it = NoSelfIter]

\* carray.view with the sizes of the chunks alone: the view ends where the
\* shared chunks end and has no rows of its own
view_chunks(wd) ==
    [view_zeros(wd) EXCEPT
       !.a.leftover = 0,
       !.a.nbytes = chunks_len(wd) * wd.a.chunklen * atomsize]

\* carray.view: the chunks are those of self (the same list or `chunks`
\* object) and the rows of its lastchunkarr are copied, lastchunkarr[:] = ...
view(wd) ==
    [view_zeros(wd) EXCEPT !.a.lastchunkarr = Overlay(@, 0, wd.a.lastchunkarr)]

(* ------------------------------ iterators ------------------------------ *)
\* carray.reset_iter_sentinels, on a new view
reset_iter_sentinels(wd) == [NoIter EXCEPT !.stop = len(wd)]

\* carray.__iter__ on a view whose mode is set
iter_enter(wd, it) ==
    IF it.iter_exhausted THEN it
    ELSE [it EXCEPT
            !.startb = 0,
            !.nrowsread = it.start,
            !.nrow = it.start - it.step,
            !.row = -1,
            !.nrowsinbuf =
                IF it.mode = "where" /\ it.where_arr.kind = "carray"
                THEN it.where_arr.carr.a.chunklen
                ELSE wd.a.chunklen]

\* cview = self: the iterator fields set are those of the carray itself
iter_self(wd, it) == [wd EXCEPT !.it = it, !.self_it = it]

\* cview = self.view(): the iterator fields set are those of a new view,
\* which become w.it; those of the carray itself stay as they are
iter_view(wd, it) == [wd EXCEPT !.it = it]

\* self.limit = limit + skip unless limit is None (<<>>)
iter_limit_noskip(limit, skip) == IF limit = <<>> THEN MAXINT ELSE limit[1]

iter_limit(limit, skip) == IF limit = <<>> THEN MAXINT ELSE limit[1] + skip

\* carray.iter and _init_iter
iter(wd, start_, stop_, step_, limit, skip) ==
    IF step_ <= 0 THEN Raise(wd, "NotImplementedError")
    ELSE iter_view(wd,
            iter_enter(wd, [reset_iter_sentinels(wd) EXCEPT
                              !.mode = "sss",
                              !.start = slice_start(start_, len(wd)),
                              !.stop = slice_stop(stop_, len(wd)),
                              !.step = step_,
                              !.limit = iter_limit(limit, skip),
                              !.skip = skip]))

\* carray.wheretrue and _init_wheretrue
wheretrue(wd, limit, skip) ==
    IF ~wd.a.isbool THEN Raise(wd, "ValueError")
    ELSE iter_view(wd,
            iter_enter(wd, [reset_iter_sentinels(wd) EXCEPT
                              !.mode = "wheretrue",
                              !.limit = iter_limit(limit, skip),
                              !.skip = skip]))

\* A mask handed to where: a NumPy array [kind |-> "ndarray", isbool, rows],
\* a carray [kind |-> "carray", isbool, carr] (carr the world of that
\* carray), or an object without dtype [kind |-> "other"].
mask_len(boolarr) ==
    IF boolarr.kind = "carray" THEN len(boolarr.carr) ELSE Len(boolarr.rows)

where_nolen(wd, boolarr, limit, skip) ==
    IF boolarr.kind = "other" THEN Raise(wd, "ValueError")
    ELSE IF ~boolarr.isbool THEN Raise(wd, "ValueError")
    ELSE iter_view(wd,
            iter_enter(wd, [reset_iter_sentinels(wd) EXCEPT
                              !.mode = "where",
                              !.where_arr = boolarr,
                              !.limit = iter_limit(limit, skip),
                              !.skip = skip]))

\* carray.where and _init_where
where(wd, boolarr, limit, skip) ==
    IF boolarr.kind = "other" THEN Raise(wd, "ValueError")
    ELSE IF ~boolarr.isbool THEN Raise(wd, "ValueError")
    ELSE IF mask_len(boolarr) # len(wd) THEN Raise(wd, "ValueError")
    ELSE iter_view(wd,
            iter_enter(wd, [reset_iter_sentinels(wd) EXCEPT
                              !.mode = "where",
                              !.where_arr = boolarr,
                              !.limit = iter_limit(limit, skip),
                              !.skip = skip]))

\* carray.check_zeros(barr) for a carray barr (its world is carr): whether
\* the chunk the next buffer starts in is a constant chunk of zeros
iter_check_zeros_carray(it, carr) ==
    LET nchunk == cdiv(it.nrowsread, it.nrowsinbuf)
        g == chunks_get(carr, nchunk)
    IN IF nchunk < chunks_len(carr)
       THEN [w |-> g.w, r |-> Ok(g.w) /\ g.r.isconstant /\ g.r.constant = 0]
       ELSE [w |-> carr, r |-> FALSE]

\* carray.check_zeros(barr) for a NumPy array barr
iter_check_zeros_ndarray(wd, it, rows) ==
    LET bsize == IF it.nrowsread + it.nrowsinbuf > len(wd)
                 THEN len(wd) - it.nrowsread ELSE it.nrowsinbuf
    IN check_zeros(PySlice(rows, it.nrowsread, it.nrowsread + bsize))

\* carray.__next__ on a view whose mode is set.  The result is the world,
\* the value yielded (<<v>>, or <<>> with stop for StopIteration) and
\* whether a row was read outside the I/O buffer or the mask buffer (ub);
\* the loop stops at such a read.
IterResult(wd, r, stop, ub) == [w |-> wd, r |-> r, stop |-> stop, ub |-> ub]

\* whether the hit counted last is one of the first skip hits
hit_skipped_lt(nhits, skip) == nhits < skip

hit_skipped(nhits, skip) == nhits <= skip

\* a buffer of zeros is passed over
elide_stale(it) == [it EXCEPT !.nrowsread = @ + it.nrowsinbuf]

elide(it) == [it EXCEPT !.nrowsread = @ + it.nrowsinbuf, !.nextelement = @ + it.nrowsinbuf]

\* Each of the three takes the view as a value: {cview} is evaluated once
\* and wd stands for its element.
RECURSIVE next_loop(_), next_fill(_), next_row(_)
\* the while loop: its condition, and its else branch
next_loop(cview) ==
    LET loop(wd) ==
        LET it == wd.it
        IN IF ~Ok(wd) THEN IterResult(wd, <<>>, FALSE, FALSE)
           ELSE IF ~(it.nextelement < it.stop /\ it.nhits < it.limit)
           THEN IterResult([wd EXCEPT !.it.iobuf = <<>>, !.it.where_buf = <<>>,
                                      !.it.iter_exhausted = TRUE],
                           <<>>, TRUE, FALSE)
           ELSE IF it.nextelement >= it.nrowsread THEN next_fill(wd)
           ELSE next_row(wd)
    IN CHOOSE g \in {loop(y) : y \in {cview}} : TRUE

\* the body for nextelement >= nrowsread: the next buffer is read
next_fill(cview) ==
    LET fill(wd) ==
        LET it0 == wd.it
            nrowsread == it0.nrowsread
                + ((it0.nextelement - it0.nrowsread) \div it0.nrowsinbuf)
                  * it0.nrowsinbuf
            stopb0 == it0.stop - nrowsread
            it1 == [it0 EXCEPT
                      !.nrowsread = nrowsread,
                      !.stopb = IF stopb0 > it0.nrowsinbuf THEN it0.nrowsinbuf
                                ELSE stopb0,
                      !.row = it0.startb - it0.step]
            skipped == elide(it1)
            zself == IF it1.mode = "wheretrue"
                     THEN iter_check_zeros_carray(it1, wd)
                     ELSE [w |-> wd, r |-> FALSE]
            iscarr == it1.mode = "where" /\ it1.where_arr.kind = "carray"
            zmask == IF iscarr
                     THEN iter_check_zeros_carray(it1, it1.where_arr.carr)
                     ELSE [w |-> NoMask,
                           r |-> it1.mode = "where"
                                 /\ iter_check_zeros_ndarray(wd, it1,
                                                             it1.where_arr.rows)]
            rdmask == IF iscarr
                      THEN getitem_slice(zmask.w, <<nrowsread>>,
                                         <<nrowsread + it1.nrowsinbuf>>, <<>>)
                      ELSE [w |-> NoMask,
                            r |-> IF it1.mode = "where"
                                  THEN PySlice(it1.where_arr.rows, nrowsread,
                                               nrowsread + it1.nrowsinbuf)
                                  ELSE <<>>]
            it2 == IF iscarr
                   THEN [it1 EXCEPT !.where_arr.carr = rdmask.w,
                                    !.where_buf = rdmask.r]
                   ELSE [it1 EXCEPT !.where_buf =
                            IF it1.mode = "where" THEN rdmask.r ELSE @]
            rd == getitem_slice(zself.w, <<nrowsread>>,
                                <<nrowsread + it1.nrowsinbuf>>, <<>>)
            it3 == [it2 EXCEPT !.iobuf = rd.r, !.nrowsread = @ + it1.nrowsinbuf]
            nhits_buf == IF it1.mode = "wheretrue" THEN SumSeq(rd.r)
                         ELSE SumSeq(rdmask.r)
        IN IF zself.r THEN next_loop([zself.w EXCEPT !.it = skipped])
           ELSE IF zmask.r
           THEN next_loop([wd EXCEPT !.it =
                   IF iscarr THEN [skipped EXCEPT !.where_arr.carr = zmask.w]
                   ELSE skipped])
           ELSE IF iscarr /\ ~Ok(rdmask.w)
           THEN IterResult(Raise(wd, rdmask.w.exc), <<>>, FALSE, FALSE)
           ELSE IF ~Ok(rd.w) THEN IterResult(rd.w, <<>>, FALSE, FALSE)
           ELSE IF it1.mode # "sss" /\ it1.skip > 0
                   /\ it1.nhits + nhits_buf < it1.skip
           THEN next_loop([rd.w EXCEPT !.it =
                   [it3 EXCEPT !.nhits = @ + nhits_buf,
                               !.nextelement = @ + it1.nrowsinbuf]])
           ELSE next_row([rd.w EXCEPT !.it = it3])
    IN CHOOSE g \in {fill(y) : y \in {cview}} : TRUE

\* the rest of the body: one row of the buffer.  In the where and
\* wheretrue modes (step is 1) the passes of the loop over rows that are
\* false, up to the next true row of the buffer or its last row below
\* stop, are taken together: each only moves _row, _nrow and nextelement
\* by one and goes on.
next_row(cview) ==
    LET one_row(wd) ==
        LET it0 == wd.it
            first == it0.row + it0.step
            buf == IF it0.mode = "where" THEN it0.where_buf ELSE it0.iobuf
            room == Min(it0.stop, it0.nrowsread) - it0.nextelement
            last == Min(first + room - 1, Len(buf) - 1)
            hits == {r \in first..last : buf[r + 1] # 0}
            ahead == IF it0.mode = "sss" \/ it0.step # 1
                        \/ first < 0 \/ first > last THEN 0
                     ELSE IF hits = {} THEN last - first
                     ELSE (CHOOSE r \in hits : \A q \in hits : r <= q) - first
            row == first + ahead
            it1 == [it0 EXCEPT
                      !.row = row,
                      !.nrow = it0.nextelement + ahead,
                      !.startb = IF row + it0.step >= it0.stopb
                                 THEN (row + it0.step) % it0.nrowsinbuf ELSE @,
                      !.nextelement = it0.nextelement + ahead + it0.step]
            w1 == [wd EXCEPT !.it = it1]
            inbuf == row >= 0 /\ row < Len(it1.iobuf)
            inmask == row >= 0 /\ row < Len(it1.where_buf)
            hit == [w1 EXCEPT !.it.nhits = @ + 1]
        IN IF it1.mode = "wheretrue"
           THEN (IF ~inbuf THEN IterResult(w1, <<>>, FALSE, TRUE)
                 ELSE IF it1.iobuf[row + 1] = 0 THEN next_loop(w1)
                 ELSE IF hit_skipped(hit.it.nhits, it1.skip) THEN next_loop(hit)
                 ELSE IterResult(hit, <<it1.nrow>>, FALSE, FALSE))
           ELSE IF it1.mode = "where" /\ ~inmask
           THEN IterResult(w1, <<>>, FALSE, TRUE)
           ELSE IF it1.mode = "where" /\ it1.where_buf[row + 1] = 0
           THEN next_loop(w1)
           ELSE IF hit_skipped(hit.it.nhits, it1.skip) THEN next_loop(hit)
           ELSE IF ~inbuf THEN IterResult(hit, <<>>, FALSE, TRUE)
           ELSE IterResult(hit, <<it1.iobuf[row + 1]>>, FALSE, FALSE)
    IN CHOOSE g \in {one_row(y) : y \in {cview}} : TRUE

\* carray.__next__; a call with no mode set starts a plain iteration on the
\* carray itself, self.iter(_next=True)
next(wd) ==
    LET w1 == IF wd.it.mode # "none" THEN wd
              ELSE iter_self(wd, iter_enter(wd, [reset_iter_sentinels(wd) EXCEPT
                                                    !.mode = "sss"]))
    IN next_loop([w1 EXCEPT !.it.nextelement = w1.it.nrow + w1.it.step])

(* --------------------------- the state machine ------------------------- *)
Values(isbool) == IF isbool THEN 0..1 ELSE 0..MaxVal
SeqsUpTo(n, V) == UNION {[1..k -> V] : k \in 0..n}

\* the arrays a caller can hand over: contiguous ones, and broadcast
\* (stride-0) views of one element, which to_ndarray hands through
Arrays(n, V) ==
    {Arr(r) : r \in SeqsUpTo(n, V)}
    \cup {Broadcast(v, k) : v \in V, k \in 1..n}

\* the arrays made of a scalar v written to n rows
ScalarValues(v, n) == {Arr(Repeat(v, n))} \cup {Broadcast(v, k) : k \in {n} \ {0}}

\* the valid keys of a scalar access, counted from either end
Keys(wd) == (-len(wd))..(len(wd) - 1)

\* the bounds and steps of a slice; None is <<>>
Bnds == {<<>>, <<-1>>} \cup {<<i>> : i \in 0..MaxLen}
Steps == {<<>>} \cup {<<s>> : s \in 2..MaxStep}

\* whether a[start:stop:step] is the whole array taken with step 1
FullRange(wd, start_, stop_, step_) ==
    /\ slice_start(start_, len(wd)) = 0
    /\ slice_stop(stop_, len(wd)) = len(wd)
    /\ slice_step(step_) = 1

\* the number of rows a[start:stop:step] selects in the array of wd
RangeLen(wd, start_, stop_, step_) ==
    get_len_of_range(slice_start(start_, len(wd)), slice_stop(stop_, len(wd)),
                     slice_step(step_))

OpenModes == {"a", "r"}
Clear(wd) == [wd EXCEPT !.exc = "none"]

\* What the store holds, read without going through the carray: chunk i
\* (from 0), the compressed bytes of all chunks, and the rows of the array.
StoredChunk(wd, i) ==
    IF wd.a.ondisk
    THEN (IF i \in DOMAIN wd.files THEN chunk_compr(wd.files[i]) ELSE NoChunk)
    ELSE wd.chunks[i + 1]

RECURSIVE StoredCbytes(_, _)
StoredCbytes(wd, n) ==
    IF n = 0 THEN 0 ELSE StoredChunk(wd, n - 1).cbytes + StoredCbytes(wd, n - 1)

ChunkRows(chunk_) ==
    IF chunk_.isconstant
    THEN Repeat(chunk_.constant, cdiv(chunk_.nbytes, atomsize))
    ELSE chunk_.dobject.data

RECURSIVE StoredRows(_, _)
StoredRows(wd, n) ==
    IF n = 0 THEN <<>>
    ELSE StoredRows(wd, n - 1) \o ChunkRows(StoredChunk(wd, n - 1))

Contents(wd) ==
    StoredRows(wd, chunks_len(wd))
    \o SubSeq(wd.a.lastchunkarr, 1, nleftover(wd))

Abs(x) == IF x < 0 THEN -x ELSE x

\* The model follows the array up to MaxLen rows (MaxDiskLen on disk) and
\* the cbytes counter, which the program never bounds, up to MaxDrift chunk
\* sizes of error.
Bounded(wd) ==
    /\ len(wd) <= (IF wd.a.ondisk THEN MaxDiskLen ELSE MaxLen)
    /\ Abs(wd.a.cbytes - (StoredCbytes(wd, chunks_len(wd)) + chunksize(wd)))
          <= MaxDrift * chunksize(wd)

\* the arrays the model constructs: (isbool, dflt) is an integer array
\* enlarged with ones or a boolean array enlarged with False
Dtypes == {<<FALSE, 1>>, <<TRUE, 0>>}

\* carray(array, dflt=..., chunklen=ChunkLen [, rootdir=..., mode="a"])
InitOf(dtypes, storages) ==
    /\ \E dt \in dtypes, persistent \in storages :
       \E rows \in SeqsUpTo(MaxInit, Values(dt[1])) :
          w = create_carray(Arr(rows), dt[2], dt[1], ChunkLen, persistent, "a")
    /\ op = "create"
    /\ ret = <<>>

DoAppend(array) ==
    /\ w' = append(Clear(w), array)
    /\ Bounded(w')
    /\ op' = "append"
    /\ ret' = <<>>

DoTrim(nitems) ==
    /\ w' = trim(Clear(w), nitems)
    /\ Bounded(w')
    /\ op' = "trim"
    /\ ret' = <<>>

DoResize(nitems) ==
    /\ w' = resize(Clear(w), nitems)
    /\ Bounded(w')
    /\ op' = "resize"
    /\ ret' = <<>>

DoSetItem(key, v, hasdtype) ==
    /\ w' = setitem_int(Clear(w), key, Arr(<<v>>), hasdtype)
    /\ Bounded(w')
    /\ op' = "setitem"
    /\ ret' = <<>>

DoSetSlice(start_, stop_, step_, value, hasdtype) ==
    /\ w' = setitem_slice(Clear(w), start_, stop_, step_, value, hasdtype)
    /\ Bounded(w')
    /\ op' = "setslice"
    /\ ret' = <<>>

DoSetMask(boolarr, rows) ==
    /\ w' = setitem_mask(Clear(w), boolarr, rows)
    /\ Bounded(w')
    /\ op' = "setmask"
    /\ ret' = <<>>

DoFlush ==
    /\ w' = flush(Clear(w))
    /\ Bounded(w')
    /\ op' = "flush"
    /\ ret' = <<>>

DoOpen(mode) ==
    /\ w.a.rootdir
    /\ \E o \in {open_carray(w, mode)} :
          w' = IF Ok(o) THEN o ELSE [w EXCEPT !.exc = o.exc]
    /\ Bounded(w')
    /\ op' = "open"
    /\ ret' = <<>>

\* a read whose copy ran outside the cache block returns any row
DoGetItem(key) ==
    LET g == getitem_int(Clear(w), key)
    IN /\ w' = g.w
       /\ op' = "getitem"
       /\ ret' \in IF g.ub THEN {<<v>> : v \in Values(w.a.isbool)} ELSE {g.r}

DoGetSlice(start_, stop_, step_) ==
    LET g == getitem_slice(Clear(w), start_, stop_, step_)
    IN /\ w' = g.w
       /\ op' = "getslice"
       /\ ret' = g.r

DoSum ==
    LET g == sum(Clear(w))
    IN /\ w' = g.w
       /\ op' = "sum"
       /\ ret' = <<g.r>>

CallAppend == \E array \in Arrays(MaxAppend, Values(w.a.isbool)) : DoAppend(array)
\* trim(k) for 0 < k <= N; what trim does for k <= 0 is resize(N - k)
CallTrim == \E nitems \in 1..len(w) : DoTrim(nitems)
CallResize == \E nitems \in 0..MaxLen : DoResize(nitems)
CallSetItem ==
    \E key \in Keys(w), v \in Values(w.a.isbool), hasdtype \in BOOLEAN :
       DoSetItem(key, v, hasdtype)
\* a[start:stop:step] = rows, rows a list or, where that makes a difference
\* (the whole array is replaced), a NumPy array of the dtype of the carray
CallSetSlice ==
    \E start_ \in Bnds, stop_ \in Bnds, step_ \in Steps :
       \E rows \in [1..RangeLen(w, start_, stop_, step_) -> Values(w.a.isbool)],
          hasdtype \in {FALSE, FullRange(w, start_, stop_, step_)} :
          DoSetSlice(start_, stop_, step_, Arr(rows), hasdtype)
\* a[start:stop] = v for a scalar v, which reaches the loop over the
\* chunks as an array of v, contiguous or broadcast
CallSetRange ==
    \E start \in 0..len(w), v \in Values(w.a.isbool) :
       \E stop \in start..len(w) :
          \E value \in ScalarValues(v, stop - start) :
             DoSetSlice(<<start>>, <<stop>>, <<>>, value, FALSE)
\* a[boolarr] = v for a scalar v
CallSetMask ==
    \E boolarr \in [1..len(w) -> 0..1], v \in Values(w.a.isbool) :
       DoSetMask(boolarr, Repeat(v, SumSeq(boolarr)))
CallFlush == DoFlush
CallOpen == DoOpen("a")
CallGetItem == \E key \in Keys(w) : DoGetItem(key)
CallGetSlice ==
    \E start_ \in Bnds, stop_ \in Bnds, step_ \in Steps :
       DoGetSlice(start_, stop_, step_)
CallSum == DoSum

\* construction followed by the operations that change the array
Next ==
    \/ CallAppend
    \/ CallTrim
    \/ CallResize
    \/ CallSetItem
    \/ CallSetRange
    \/ CallSetMask

Spec == InitOf({<<FALSE, 1>>}, BOOLEAN) /\ [][Next]_vars

\* a persistent array that is changed, flushed and opened again
NextDisk ==
    \/ CallAppend
    \/ CallTrim
    \/ CallResize
    \/ CallSetItem
    \/ CallFlush
    \/ CallOpen

SpecDisk == InitOf({<<FALSE, 1>>}, {TRUE}) /\ [][NextDisk]_vars

\* scalar reads through the block cache between changes of the array
NextCache ==
    \/ CallAppend
    \/ CallTrim
    \/ CallSetItem
    \/ CallGetItem

SpecCache == InitOf({<<FALSE, 1>>}, BOOLEAN) /\ [][NextCache]_vars

\* scalar writes and scalar reads of the arrays that appends build
NextScalar ==
    \/ CallAppend
    \/ CallSetItem
    \/ CallGetItem

SpecScalar == InitOf({<<FALSE, 1>>}, BOOLEAN) /\ [][NextScalar]_vars

\* slice reads of the arrays that appends and trims build
NextSlice ==
    \/ CallAppend
    \/ CallTrim
    \/ CallGetSlice

SpecSlice == InitOf({<<FALSE, 1>>}, BOOLEAN) /\ [][NextSlice]_vars

\* sums of the arrays that appends, trims and writes build
NextSum ==
    \/ CallAppend
    \/ CallTrim
    \/ CallSetItem
    \/ CallSum

SpecSum == InitOf(Dtypes, BOOLEAN) /\ [][NextSum]_vars

\* slice writes on the arrays that appends build
NextWrite ==
    \/ CallAppend
    \/ CallSetSlice

SpecWrite == InitOf({<<FALSE, 1>>}, BOOLEAN) /\ [][NextWrite]_vars

\* the arrays an iteration runs over: every array of up to MaxLen rows
InitIter ==
    /\ \E dt \in Dtypes, persistent \in BOOLEAN :
       \E rows \in SeqsUpTo(MaxLen, Values(dt[1])) :
          w = create_carray(Arr(rows), dt[2], dt[1], ChunkLen, persistent, "a")
    /\ op = "create"
    /\ ret = <<>>

\* the masks of n rows a caller can hand to where(): a NumPy array or an
\* in-memory carray of some chunklen
MaskChunkLens == 1..(ChunkLen + 1)
Masks(n, isbool) ==
    {[kind |-> "ndarray", isbool |-> isbool, rows |-> rows] : rows \in [1..n -> 0..1]}
    \cup {[kind |-> "carray", isbool |-> isbool, carr |-> create_carray(Arr(rows), 0, isbool, cl, FALSE, "a")] : rows \in [1..n -> 0..1], cl \in MaskChunkLens}

\* the masks where() has to refuse for an array of n rows: not boolean, of
\* another length, or no array
BadMasks(n) ==
    Masks(n, FALSE)
    \cup UNION {Masks(k, TRUE) : k \in (0..(MaxLen + 1)) \ {n}}
    \cup {[kind |-> "other"]}

\* the limit and skip arguments; None is <<>>
Limits == {<<>>} \cup {<<l>> : l \in 0..2}
Skips == 0..2

\* the (limit, skip) arguments the iterators are driven with
LimitSkip == {<<<<>>, 0>>, <<<<1>>, 1>>}

\* one iterator is taken from an array and driven by next(); an array
\* longer than MaxLen is iterated with a limit
CallIter ==
    /\ w.it.mode = "none"
    /\ \E start_ \in {<<0>>, <<1>>}, stop_ \in {<<>>, <<3>>}, step_ \in 1..MaxStep :
       \E ls \in LimitSkip :
          w' = iter(Clear(w), start_, stop_, step_, ls[1], ls[2])
    /\ op' = "iter"
    /\ ret' = <<>>

CallWhereTrue ==
    /\ w.it.mode = "none"
    /\ \E limit \in {<<1>>, <<5>>} \cup {l \in {<<>>} : len(w) <= MaxLen}, skip \in {0, 1, 3} :
          w' = wheretrue(Clear(w), limit, skip)
    /\ op' = "wheretrue"
    /\ ret' = <<>>

CallWhere ==
    /\ w.it.mode = "none"
    /\ \E boolarr \in Masks(len(w), TRUE) \cup BadMasks(len(w)), ls \in LimitSkip :
          w' = where(Clear(w), boolarr, ls[1], ls[2])
    /\ op' = "where"
    /\ ret' = <<>>

\* next(): StopIteration is the exception of the call; a read outside the
\* buffers gives any byte, so the call yields anything or goes on
CallNext ==
    /\ w.it.mode # "none"
    /\ Ok(w) \/ w.exc = "StopIteration"
    /\ \E g \in {next(Clear(w))} :
          IF g.ub
          THEN /\ w' \in {g.w, Raise(g.w, "StopIteration")}
               /\ ret' \in {<<v>> : v \in 0..MaxLen} \cup {<<>>}
          ELSE /\ w' = IF g.stop THEN Raise(g.w, "StopIteration") ELSE g.w
               /\ ret' = g.r
    /\ op' = "next"

NextIter ==
    \/ CallIter
    \/ CallWhereTrue
    \/ CallWhere
    \/ CallNext

SpecIter == InitIter /\ [][NextIter]_vars

\* a boolean array of 10_000 rows, true at the indices divisible by 17,
\* built with some chunklen and iterated with wheretrue()
ExampleRows == [i \in 1..10000 |-> IF (i - 1) % 17 = 0 THEN 1 ELSE 0]

InitExample ==
    /\ \E chunklen \in {4096, 8192, 16384}, persistent \in BOOLEAN :
          w = create_carray(Arr(ExampleRows), 0, TRUE, chunklen, persistent, "a")
    /\ op = "create"
    /\ ret = <<>>

NextExample ==
    \/ CallWhereTrue
    \/ CallNext

SpecExample == InitExample /\ [][NextExample]_vars

\* carray(array, mode="r", safe=...) in memory, and
\* carray(rootdir=..., mode="r", safe=...) on an array created and flushed
\* before; safe is only stored by the constructor
InitRead ==
    /\ \E dt \in Dtypes, persistent \in BOOLEAN, safe \in BOOLEAN :
       \E rows \in SeqsUpTo(MaxInit, Values(dt[1])) :
          LET c == create_carray(Arr(rows), dt[2], dt[1], ChunkLen, persistent,
                                 IF persistent THEN "a" ELSE "r")
              o == IF persistent THEN open_carray(c, "r") ELSE c
          IN w = [o EXCEPT !.a.safe = safe]
    /\ op = "create"
    /\ ret = <<>>

\* a[[i, j]] = [u, v]
CallSetIndex ==
    /\ \E key \in SeqsUpTo(2, Keys(w)) :
       \E rows \in [1..Len(key) -> Values(w.a.isbool)] :
          w' = setitem_index(Clear(w), key, Arr(rows))
    /\ Bounded(w')
    /\ op' = "setindex"
    /\ ret' = <<>>

\* the operations that change an array, on arrays in mode r
NextRead ==
    \/ CallAppend
    \/ CallTrim
    \/ CallResize
    \/ CallSetItem
    \/ CallSetSlice
    \/ CallSetMask
    \/ CallSetIndex

SpecRead == InitRead /\ [][NextRead]_vars

\* b = a.view(): the program goes on with the view
CallView ==
    /\ w' = view(Clear(w))
    /\ op' = "view"
    /\ ret' = <<>>

\* views of the arrays that appends and scalar writes build, appended to
\* and written in turn
NextView ==
    \/ CallAppend
    \/ CallSetItem
    \/ CallView

SpecView == InitOf({<<FALSE, 1>>}, BOOLEAN) /\ [][NextView]_vars

(* ------------------------- reshape on disk ---------------------------- *)
\* carray.reshape of a persistent array, step by step.  Here w holds the two
\* carrays and the two directories: self with its root directory, out with
\* the temporary directory next to it.  A directory is <<>> when it does not
\* exist and <<[files, sizes, storage]>> when it does.  The array has one
\* dimension, so newlen = len(self) and each row is appended on its own.
DirOf(wd) == <<[files |-> wd.files, sizes |-> wd.sizes, storage |-> wd.storage]>>

InitReshape ==
    /\ \E dt \in Dtypes : \E rows \in SeqsUpTo(MaxInit, Values(dt[1])) :
          LET self == create_carray(Arr(rows), dt[2], dt[1], ChunkLen, TRUE, "a")
          IN w = [self |-> self, out |-> self, root |-> DirOf(self),
                  temp |-> <<>>, pc |-> "mkdtemp", i |-> 0]
    /\ op = "create"
    /\ ret = <<>>

\* rootdir = tempfile.mkdtemp(suffix='__temp__', dir=absdir)
ReshapeMkdtemp ==
    /\ w.pc = "mkdtemp"
    /\ w' = [w EXCEPT !.temp = <<[files |-> EmptyFiles, sizes |-> NoSizes,
                                  storage |-> <<>>]>>,
                      !.pc = "create"]
    /\ op' = "mkdtemp"
    /\ ret' = <<>>

\* out = carray([], dtype=newdtype, cparams=self.cparams,
\*              expectedlen=newlen, rootdir=rootdir, mode='w')
ReshapeCreate ==
    /\ w.pc = "create"
    /\ \E out \in {create_carray(Arr(<<>>), w.self.a.dflt, w.self.a.isbool,
                                 ChunkLen, TRUE, "w")} :
          w' = [w EXCEPT !.out = out, !.temp = DirOf(out), !.pc = "append"]
    /\ op' = "carray"
    /\ ret' = <<>>

\* for i in range(ilen): out.append(self[i].reshape(-1))
ReshapeAppend ==
    /\ w.pc = "append"
    /\ w.i < len(w.self)
    /\ \E g \in {getitem_int(Clear(w.self), w.i)} :
       \E out \in {append(Clear(w.out), Arr(g.r))} :
          w' = [w EXCEPT !.self = g.w, !.out = out, !.temp = DirOf(out),
                         !.i = @ + 1]
    /\ op' = "append"
    /\ ret' = <<>>

\* out.flush()
ReshapeFlush ==
    /\ w.pc = "append"
    /\ w.i = len(w.self)
    /\ \E out \in {flush(Clear(w.out))} :
          w' = [w EXCEPT !.out = out, !.temp = DirOf(out), !.pc = "rmtree"]
    /\ op' = "flush"
    /\ ret' = <<>>

\* shutil.rmtree(self._rootdir): the entries of the root directory go one
\* after the other, the chunk files in any order here and the meta files
\* together with the directory itself
ReshapeRmtree ==
    /\ w.pc = "rmtree"
    /\ IF DOMAIN w.root[1].files # {}
       THEN \E n \in DOMAIN w.root[1].files :
               w' = [w EXCEPT !.root[1].files = FileRemove(@, n)]
       ELSE w' = [w EXCEPT !.root = <<>>, !.pc = "rename"]
    /\ op' = "rmtree"
    /\ ret' = <<>>

\* os.rename(rootdir, self._rootdir); out.rootdir = self._rootdir;
\* out.mode = self._mode
ReshapeRename ==
    /\ w.pc = "rename"
    /\ w' = [w EXCEPT !.root = w.temp, !.temp = <<>>,
                      !.out.a.mode = w.self.a.mode, !.pc = "done"]
    /\ op' = "rename"
    /\ ret' = <<>>

\* any step of reshape can raise (the disk is full, a file cannot be
\* written or removed, ...): reshape ends there and nothing is cleaned up
ReshapeFail ==
    /\ w.pc \notin {"done", "failed"}
    /\ w' = [w EXCEPT !.pc = "failed"]
    /\ op' = w.pc
    /\ ret' = <<"raised">>

NextReshape ==
    \/ ReshapeMkdtemp
    \/ ReshapeCreate
    \/ ReshapeAppend
    \/ ReshapeFlush
    \/ ReshapeRmtree
    \/ ReshapeRename
    \/ ReshapeFail

SpecReshape == InitReshape /\ [][NextReshape]_vars

(* ---------------------- creation at a root path ----------------------- *)
\* What is at the root path: <<>> when nothing is, <<[file |-> TRUE]>> when
\* a plain file is, and a directory as in reshape otherwise.  _mkdirs with
\* no test of the mode, then _mkdirs: an existing path raises unless the
\* mode is "w", and is removed (shutil.rmtree or os.remove) when it is; the
\* root, data and meta directories are made anew.
PlainFile == <<[file |-> TRUE]>>
NoCarray == [exc |-> "none"]

mkdirs_nocheck(path, mode) ==
    [exc |-> "none",
     path |-> <<[files |-> EmptyFiles, sizes |-> NoSizes, storage |-> <<>>]>>]

mkdirs(path, mode) ==
    IF path # <<>> /\ mode # "w"
    THEN [exc |-> "IOError", path |-> path]
    ELSE [exc |-> "none",
          path |-> <<[files |-> EmptyFiles, sizes |-> NoSizes, storage |-> <<>>]>>]

\* carray(array, dflt=..., chunklen=..., rootdir=path, mode=mode): nothing
\* touches the path before _mkdirs, and all that follows works in the
\* layout _mkdirs made
carray_at(path, array, dflt, isbool, chunklen, mode) ==
    LET d == mkdirs(path, mode)
    IN IF d.exc # "none"
       THEN [w |-> Raise(NoCarray, d.exc), path |-> d.path]
       ELSE LET c == create_carray(array, dflt, isbool, chunklen, TRUE, mode)
            IN [w |-> c, path |-> DirOf(c)]

CreateModes == {"a", "r", "w"}

InitCreate ==
    /\ \E path \in {<<>>, PlainFile} : w = [root |-> path, c |-> NoCarray]
    /\ op = "none"
    /\ ret = <<>>

CallCreate ==
    /\ \E dt \in Dtypes, mode \in CreateModes :
       \E rows \in SeqsUpTo(MaxInit, Values(dt[1])) :
       \E r \in {carray_at(w.root, Arr(rows), dt[2], dt[1], ChunkLen, mode)} :
          /\ w' = [root |-> r.path, c |-> r.w]
          /\ ret' = <<mode, w.root # <<>> >>
    /\ op' = "carray"

NextCreate == CallCreate

SpecCreate == InitCreate /\ [][NextCreate]_vars

\* a persistent array that is appended to, flushed and opened anew, in
\* mode "a" and in mode "w"
CallOpenW == DoOpen("w")

NextOpen ==
    \/ CallAppend
    \/ CallFlush
    \/ CallOpen
    \/ CallOpenW

SpecOpen == InitOf({<<FALSE, 1>>}, {TRUE}) /\ [][NextOpen]_vars

(* ------------------------ sum and the dtypes -------------------------- *)
\* The base dtype of an array is its kind ("b", "i" or "u") and its
\* itemsize; w.base holds it here, next to the fields of the carray.  The
\* byte counts of the model do not depend on it.  IntType is np.int_, the
\* platform integer (8 bytes).
IntType == [kind |-> "i", itemsize |-> 8]
WithBase(wd, base) == [x \in DOMAIN wd \cup {"base"} |-> IF x = "base" THEN base ELSE wd[x]]

\* NumPy arithmetic in a dtype: the value modulo 2^(8 * itemsize), in the
\* range of the kind.  No sum of the model reaches 2^31, so a dtype of 4
\* bytes or more never wraps here.
np_wrap(x, dtype) ==
    IF dtype.itemsize >= 4 THEN x
    ELSE LET m == 2 ^ (8 * dtype.itemsize)
             r == x % m
         IN IF dtype.kind = "i" /\ r >= m \div 2 THEN r - m ELSE r

\* the dtype sum() accumulates in when none is given
sum_dtype(base) ==
    IF base.kind \in {"b", "i"} /\ base.itemsize < IntType.itemsize
    THEN IntType
    ELSE base

\* result += chunk_.constant * self._chunklen (the product of a NumPy
\* scalar and a Python integer keeps the dtype of the scalar, an integer
\* for a boolean), result += chunk_.true_count,
\* result += chunk_[:].sum(dtype=dtype)
RECURSIVE sum_chunks_as(_, _, _, _)
sum_chunks_as(wd, dtype, i, result) ==
    IF i >= chunks_len(wd) THEN [w |-> wd, r |-> result]
    ELSE LET g == chunks_get(wd, i)
             term == IF g.r.isconstant
                     THEN (IF wd.base.kind = "b" THEN g.r.constant * wd.a.chunklen
                           ELSE np_wrap(g.r.constant * wd.a.chunklen, wd.base))
                     ELSE IF wd.a.isbool THEN g.r.true_count
                     ELSE np_wrap(SumSeq(chunk_slice(g.r, <<>>, <<>>, 1)), dtype)
         IN IF ~Ok(g.w) THEN [w |-> g.w, r |-> result]
            ELSE sum_chunks_as(g.w, dtype, i + 1, np_wrap(result + term, dtype))

\* carray.sum() of an array of base dtype wd.base
sum_as(wd) ==
    LET dtype == sum_dtype(wd.base)
        lp == sum_chunks_as(wd, dtype, 0, 0)
        leftover == len(wd) - nchunks(wd) * wd.a.chunklen
        tail == np_wrap(SumSeq(PySlice(wd.a.lastchunkarr, 0, leftover)), dtype)
    IN IF ~Ok(lp.w) \/ wd.a.leftover = 0 THEN lp
       ELSE [w |-> lp.w, r |-> np_wrap(lp.r + tail, dtype)]

\* the base dtypes of the model and some of their values, the extreme
\* ones among them
Bases == {[kind |-> "b", itemsize |-> 1], [kind |-> "i", itemsize |-> 1], [kind |-> "u", itemsize |-> 1], [kind |-> "u", itemsize |-> 2], IntType}
BaseValues(base) ==
    IF base.kind = "b" THEN {0, 1}
    ELSE IF base.itemsize >= 4 THEN {0, 1, MaxVal + 1}
    ELSE LET m == 2 ^ (8 * base.itemsize)
         IN IF base.kind = "u" THEN {0, 1, m - 1} ELSE {-(m \div 2), 0, m \div 2 - 1}

\* carray(array, chunklen=ChunkLen [, rootdir=...]), array of a base dtype
\* and possibly a broadcast one (strides[0] == 0)
InitSumAs ==
    /\ \E base \in Bases, persistent \in BOOLEAN :
       \E array \in {Arr(rows) : rows \in SeqsUpTo(MaxInit, BaseValues(base))}
                    \cup {Broadcast(v, ChunkLen) : v \in BaseValues(base)} :
          w = WithBase(create_carray(array, 0, base.kind = "b", ChunkLen,
                                     persistent, "a"), base)
    /\ op = "create"
    /\ ret = <<>>

CallSumAs ==
    /\ \E g \in {sum_as(Clear(w))} :
          /\ w' = g.w
          /\ ret' = <<g.r>>
    /\ op' = "sum"

NextSumAs ==
    \/ CallSumAs
    \/ CallFlush

SpecSumAs == InitSumAs /\ [][NextSumAs]_vars

(* --------------------- the chunk store on disk ------------------------ *)
\* The operations of `chunks` on the store of a persistent array, with the
\* chunks a carray hands to it: chunk(array, ..., _memory=self._rootdir is
\* None), where _memory is true in a view of a persistent array only.
MaxChunks == MaxDiskLen \div ChunkLen + 1
StoreChunks == {compress_arrdata(Arr(rows), FALSE, memory) : rows \in [1..ChunkLen -> Values(FALSE)], memory \in BOOLEAN}

StoreGet ==
    /\ \E nchunk \in 0..(w.store.nchunks - 1) :
       \E g \in {store_getitem(Clear(w), nchunk)} :
          /\ w' = g.w
          /\ ret' = <<g.r>>
    /\ op' = "get"

StoreAppend ==
    /\ w.store.nchunks < MaxChunks
    /\ \E chunk_ \in StoreChunks : w' = store_append(Clear(w), chunk_)
    /\ op' = "append"
    /\ ret' = <<>>

StoreSet ==
    /\ \E nchunk \in 0..(w.store.nchunks - 1), chunk_ \in StoreChunks :
          w' = store_save(Clear(w), nchunk, chunk_)
    /\ op' = "set"
    /\ ret' = <<>>

StorePop ==
    /\ w.store.nchunks > 0
    /\ \E g \in {store_pop(Clear(w))} :
          /\ w' = g.w
          /\ ret' = <<g.r>>
    /\ op' = "pop"

StoreFlush ==
    /\ \E chunk_ \in StoreChunks : w' = store_flush(Clear(w), chunk_)
    /\ op' = "flush"
    /\ ret' = <<>>

NextStore ==
    \/ StoreGet
    \/ StoreAppend
    \/ StoreSet
    \/ StorePop
    \/ StoreFlush

SpecStore == InitOf({<<FALSE, 1>>}, {TRUE}) /\ [][NextStore]_vars

(* ------------------- stopping without a flush ------------------------- *)
\* A persistent array that is appended to and flushed, and now and then
\* lost without a flush and opened anew from its root directory.  Here w
\* holds the carray (c) and next to it the rows it had at its last flush.
InitCrash ==
    /\ \E rows \in SeqsUpTo(MaxInit, Values(FALSE)) :
          w = [c |-> create_carray(Arr(rows), 1, FALSE, ChunkLen, TRUE, "a"),
               flushed |-> rows]
    /\ op = "create"
    /\ ret = <<>>

CrashAppend ==
    /\ \E array \in Arrays(MaxAppend, Values(FALSE)) :
       \E c \in {append(Clear(w.c), array)} :
          /\ Bounded(c)
          /\ w' = [w EXCEPT !.c = c]
    /\ op' = "append"
    /\ ret' = <<>>

CrashFlush ==
    /\ \E c \in {flush(Clear(w.c))} :
          w' = [c |-> c, flushed |-> IF Ok(c) THEN Contents(c) ELSE w.flushed]
    /\ op' = "flush"
    /\ ret' = <<>>

\* the process stops; carray(rootdir=..., mode="a") in a new one
CrashOpen ==
    /\ \E c \in {open_carray(w.c, "a")} : w' = [w EXCEPT !.c = c]
    /\ op' = "open"
    /\ ret' = <<>>

NextCrash ==
    \/ CrashAppend
    \/ CrashFlush
    \/ CrashOpen

SpecCrash == InitCrash /\ [][NextCrash]_vars

(* --------------------- the cbytes counter at large -------------------- *)
\* append, trim, resize and scalar writes with the cbytes counter followed
\* further away from the bytes stored than Bounded allows
FarBounded(wd) ==
    /\ len(wd) <= (IF wd.a.ondisk THEN MaxDiskLen ELSE MaxLen)
    /\ Abs(wd.a.cbytes - (StoredCbytes(wd, chunks_len(wd)) + chunksize(wd)))
          <= (MaxDrift + 2) * chunksize(wd)

FarAppend ==
    /\ \E array \in Arrays(MaxAppend, Values(w.a.isbool)) :
          w' = append(Clear(w), array)
    /\ FarBounded(w')
    /\ op' = "append"
    /\ ret' = <<>>

FarTrim ==
    /\ \E nitems \in 1..len(w) : w' = trim(Clear(w), nitems)
    /\ FarBounded(w')
    /\ op' = "trim"
    /\ ret' = <<>>

FarResize ==
    /\ \E nitems \in 0..MaxLen : w' = resize(Clear(w), nitems)
    /\ FarBounded(w')
    /\ op' = "resize"
    /\ ret' = <<>>

FarSetItem ==
    /\ \E key \in Keys(w), v \in Values(w.a.isbool) :
          w' = setitem_int(Clear(w), key, Arr(<<v>>), FALSE)
    /\ FarBounded(w')
    /\ op' = "setitem"
    /\ ret' = <<>>

NextFar ==
    \/ FarAppend
    \/ FarTrim
    \/ FarResize
    \/ FarSetItem

SpecFar == InitOf({<<FALSE, 1>>}, BOOLEAN) /\ [][NextFar]_vars

(* -------------------- trim and the width of an int -------------------- *)
\* The counters of carray.trim for arrays of 2^24 rows and more.  Rows and
\* bytes are counted here in units of 2^24, so that the counters fit the
\* integers of the model: a C int (32 bits) holds -CIntUnits .. CIntUnits - 1
\* units, and c_int is the value an int takes in a two's complement build
\* when the arithmetic leaves that range.  nbytes is an npy_intp of 64 bits.
UnitRows == 2 ^ 24
CIntUnits == MAXINT \div UnitRows + 1
c_int(x) == ((x + CIntUnits) % (2 * CIntUnits)) - CIntUnits

\* bsize = <int> nitems * atomsize: the cast applies to nitems, and the
\* product of two ints is an int
trim_bsize(nitems, atomsize_) == c_int(nitems * atomsize_)

\* carray.trim(nitems), nitems > 0, on the counters c of an array
trim_counters(c, nitems) ==
    LET len_ == c.nbytes \div c.atomsize
    IN IF nitems > len_ THEN [c EXCEPT !.exc = "ValueError"]
       ELSE IF nitems >= CIntUnits THEN [c EXCEPT !.exc = "OverflowError"]
       ELSE LET bsize == trim_bsize(nitems, c.atomsize)
            IN IF c.leftover - bsize > 0
               THEN [c EXCEPT !.leftover = c_int(c.leftover - bsize),
                              !.nbytes = @ - bsize, !.exc = "none"]
               ELSE [c EXCEPT !.leftover = cmod(len_ - nitems, c.chunklen) * c.atomsize,
                              !.nbytes = @ - bsize, !.exc = "none"]

\* arrays of 0 .. CIntUnits / 4 units of rows, of atoms of 1 to 8 bytes, in
\* chunks of 1 or 2 units of rows
InitUnits ==
    /\ \E atomsize_ \in {1, 2, 4, 8}, chunklen \in {1, 2}, n \in 0..(CIntUnits \div 4) :
          w = [nbytes |-> n * atomsize_, leftover |-> cmod(n, chunklen) * atomsize_,
               atomsize |-> atomsize_, chunklen |-> chunklen, exc |-> "none"]
    /\ op = "create"
    /\ ret = <<>>

TrimUnits ==
    /\ \E nitems \in 1..(w.nbytes \div w.atomsize) :
          /\ w' = trim_counters(w, nitems)
          /\ ret' = <<nitems>>
    /\ w'.nbytes \in 0..(CIntUnits * 2)
    /\ op' = "trim"

NextUnits == TrimUnits

SpecUnits == InitUnits /\ [][NextUnits]_vars

(* ------------------------------- claims -------------------------------- *)
Row(wd, key) == Contents(wd)[(IF key < 0 THEN key + len(wd) ELSE key) + 1]
CeilDiv(a, b) == (a + b - 1) \div b

\* C1: in every state reached by construction followed by append, trim,
\* resize and scalar, range and mask writes, the length N equals
\* len(chunk store) * chunklen + leftover_rows with
\* 0 <= leftover_rows < chunklen; equivalently N * atomsize =
\* nchunks * chunksize + leftover_rows * atomsize, and the store holds
\* exactly floor(N / chunklen) chunks.
C1_LengthInvariant ==
    /\ len(w) = chunks_len(w) * w.a.chunklen + nleftover(w)
    /\ 0 <= nleftover(w)
    /\ nleftover(w) < w.a.chunklen
    /\ len(w) * atomsize = nchunks(w) * chunksize(w) + nleftover(w) * atomsize
    /\ chunks_len(w) = len(w) \div w.a.chunklen

\* an in-memory array of two chunks trimmed to one chunk and one tail row
C1_Witness ==
    /\ op = "trim" /\ Ok(w) /\ ~w.a.rootdir
    /\ chunks_len(w) = 1 /\ nleftover(w) = 1

\* C2: for a persistent array, after any sequence of append, trim, resize
\* and writes followed by flush(), opening a new carray from the same root
\* directory (in any mode) yields the same length and element-wise equal
\* rows, and the same shape, dtype, chunklen, expectedlen, dflt and cparams.
C2_RoundTrip ==
    (op = "flush" /\ Ok(w)) =>
        \A mode \in OpenModes :
           LET o == open_carray(w, mode)
           IN /\ Ok(o)
              /\ len(o) = len(w)
              /\ Contents(o) = Contents(w)
              /\ o.sizes.shape = len(w)
              /\ o.a.isbool = w.a.isbool
              /\ o.a.chunklen = w.a.chunklen
              /\ o.a.expectedlen = w.a.expectedlen
              /\ o.a.dflt = w.a.dflt
              /\ o.a.cparams = w.a.cparams

\* a flushed persistent array of one chunk and a tail row that is not zero
C2_Witness ==
    /\ op = "flush" /\ Ok(w) /\ w.a.rootdir
    /\ chunks_len(w) = 1 /\ nleftover(w) = 1 /\ w.a.lastchunkarr[1] = 1

\* C3: after any sequence of scalar reads interleaved with append, trim and
\* writes, the scalar read a[i] returns the row stored at index i, the same
\* value as the slice read a[i:i+1]; the block cache never serves a block
\* decoded before the rows at that position changed.
C3_CacheRead ==
    \A key \in Keys(w) :
       LET g == getitem_int(Clear(w), key)
           i == IF key < 0 THEN key + len(w) ELSE key
       IN /\ Ok(g.w)
          /\ ~g.ub
          /\ g.r = <<Row(w, key)>>
          /\ g.r = getitem_slice(Clear(w), <<i>>, <<i + 1>>, <<>>).r

RangeInChunk(nchunk, chunklen, start, stop, step) ==
    {i \in start..(stop - 1) :
        (i - start) % step = 0 /\ i \div chunklen = nchunk}
ClipSelects(nchunk, chunklen, start, stop, step) ==
    LET c == clip_chunk(nchunk, chunklen, start, stop, step)
    IN {nchunk * chunklen + c[1] + k * step : k \in 0..(c[3] - 1)}
RECURSIVE SumBlen(_, _, _, _, _, _)
SumBlen(nchunk, last_chunk, chunklen, start, stop, step) ==
    IF nchunk >= last_chunk THEN 0
    ELSE clip_chunk(nchunk, chunklen, start, stop, step)[3]
         + SumBlen(nchunk + 1, last_chunk, chunklen, start, stop, step)

\* C5: for all start, stop and positive step, clamped against N, the slice
\* read a[start:stop:step] returns the rows at start, start+step, ... below
\* stop in order, ceil_div(max(0, stop-start), step) of them; the clip of
\* every chunk (and of the tail) selects exactly the indices of the range
\* that lie in it, and the blen of the visited chunks sum to the output
\* length.
C5_SliceRead ==
    \A start_ \in Bnds, stop_ \in Bnds, step_ \in Steps \cup {<<1>>} :
       LET g == getitem_slice(Clear(w), start_, stop_, step_)
           start == slice_start(start_, len(w))
           stop == slice_stop(stop_, len(w))
           step == slice_step(step_)
           chunklen == w.a.chunklen
           nchunks_ == nchunks(w) + (IF w.a.leftover > 0 THEN 1 ELSE 0)
           first_chunk == cdiv(start, chunklen)
           last_chunk == Min(cdiv(stop, chunklen) + 1, nchunks_)
       IN /\ Ok(g.w)
          /\ g.r = Strided(Contents(w), start, Max(start, stop), step)
          /\ Len(g.r) = CeilDiv(Max(0, stop - start), step)
          /\ \A nchunk \in 0..(nchunks_ - 1) :
                RangeInChunk(nchunk, chunklen, start, stop, step) =
                    IF nchunk >= first_chunk /\ nchunk < last_chunk
                    THEN ClipSelects(nchunk, chunklen, start, stop, step)
                    ELSE {}
          /\ SumBlen(first_chunk, last_chunk, chunklen, start, stop, step)
                = Len(g.r)

\* rows 0 and 3 of a four-row array: a read with step 3 over both chunks
C5_Witness ==
    /\ op = "getslice" /\ Ok(w)
    /\ Contents(w) = <<1, 0, 0, 1>> /\ ret = <<1, 1>>

\* C6: append of m rows to an array of length N with leftover_rows rows in
\* the tail gives length N+m, rows [0,N) unchanged and rows [N,N+m) equal to
\* the input in order; it adds floor((leftover_rows + m) / chunklen) chunks
\* and leaves (leftover_rows + m) mod chunklen rows in the tail.
C6_Append ==
    \A array \in Arrays(MaxAppend, Values(w.a.isbool)) :
       LET w2 == append(Clear(w), array)
           m == Len(array.rows)
       IN /\ Ok(w2)
          /\ len(w2) = len(w) + m
          /\ Contents(w2) = Contents(w) \o array.rows
          /\ chunks_len(w2) =
                chunks_len(w) + ((nleftover(w) + m) \div w.a.chunklen)
          /\ nleftover(w2) = (nleftover(w) + m) % w.a.chunklen

\* C7: for every 0 < k <= N, trim(k) leaves length N-k with every row
\* i < N-k unchanged; when chunks are removed, the chunks with index
\* >= floor((N-k)/chunklen) are popped, the others stay, and the tail holds
\* the first (N-k) mod chunklen rows of the last chunk popped.
C7_Trim ==
    \A k \in 1..len(w) :
       LET w2 == trim(Clear(w), k)
           n == len(w) - k
           nchunk == n \div w.a.chunklen
       IN /\ Ok(w2)
          /\ len(w2) = n
          /\ Contents(w2) = SubSeq(Contents(w), 1, n)
          /\ chunks_len(w2) < chunks_len(w) =>
                /\ chunks_len(w2) = nchunk
                /\ \A i \in 0..(nchunk - 1) :
                      StoredChunk(w2, i) = StoredChunk(w, i)
                /\ SubSeq(w2.a.lastchunkarr, 1, n % w.a.chunklen) =
                      SubSeq(ChunkRows(StoredChunk(w, nchunk)), 1,
                             n % w.a.chunklen)

\* a trim that popped the second chunk and kept its first row as the tail
C7_Witness ==
    /\ op = "trim" /\ Ok(w) /\ ~w.a.rootdir
    /\ len(w) = 3 /\ chunks_len(w) = 1 /\ w.a.lastchunkarr[1] = 1

\* C8: resize(n) with n >= 0 leaves length n: for n = N nothing changes;
\* for n > N rows [0,N) are unchanged and every row in [N,n) equals dflt;
\* for n < N the result is that of trim(N-n), rows [0,n) unchanged.
C8_Resize ==
    \A n \in 0..MaxLen :
       LET w2 == resize(Clear(w), n)
       IN /\ Ok(w2)
          /\ len(w2) = n
          /\ n = len(w) => w2 = Clear(w)
          /\ n > len(w) =>
                Contents(w2) = Contents(w) \o Repeat(w.a.dflt, n - len(w))
          /\ n < len(w) =>
                /\ w2 = trim(Clear(w), len(w) - n)
                /\ Contents(w2) = SubSeq(Contents(w), 1, n)

\* an array enlarged to two chunks, the last row being dflt
C8_Witness ==
    /\ op = "resize" /\ Ok(w)
    /\ len(w) = MaxLen /\ chunks_len(w) = 2 /\ Row(w, -1) = w.a.dflt

\* C9: in memory or persistent, after any sequence of appends, trims and
\* writes, sum() equals the sum of all N rows of a[:].
C9_Sum ==
    (op = "sum" /\ Ok(w)) => ret = <<SumSeq(Contents(w))>>

\* the values of a write to n rows: every array of n rows, and every
\* scalar broadcast over the n rows
WriteValues(n, V) ==
    {Arr(rows) : rows \in [1..n -> V]}
    \cup {Broadcast(v, k) : v \in V, k \in {n} \ {0}}

MaskWritten(rows, mask, src) ==
    [i \in 1..Len(rows) |->
        IF mask[i] = 1
        THEN src[Cardinality({j \in 1..i : mask[j] = 1})]
        ELSE rows[i]]

\* C11: a boolean-mask write a[mask] = values with len(mask) = N sets the
\* rows where mask is true to the successive values (or to the broadcast
\* scalar) in index order and leaves unchanged every row where mask is
\* false, the length, and every chunk whose slice of the mask has no true
\* bit: such a chunk is neither fetched nor rebuilt.
C11_MaskWrite ==
    \A mask \in [1..len(w) -> 0..1] :
       \A src \in [1..SumSeq(mask) -> Values(w.a.isbool)] :
          LET w2 == setitem_mask(Clear(w), mask, src)
              chunklen == w.a.chunklen
          IN /\ Ok(w2)
             /\ len(w2) = len(w)
             /\ Contents(w2) = MaskWritten(Contents(w), mask, src)
             /\ chunks_len(w2) = chunks_len(w)
             /\ \A n \in 0..(chunks_len(w) - 1) :
                   (\A i \in (n * chunklen + 1)..((n + 1) * chunklen) :
                       mask[i] = 0)
                   => /\ StoredChunk(w2, n) = StoredChunk(w, n)
                      /\ w2.store.nchunk_cached = n
                            => w.store.nchunk_cached = n

\* a mask write that rebuilt the second chunk of two and left the first,
\* a chunk of zeros, as it was
C11_Witness ==
    /\ op = "setmask" /\ Ok(w) /\ ~w.a.rootdir
    /\ Contents(w) = <<0, 0, 1, 1>>
    /\ w.chunks[1].isconstant /\ ~w.chunks[2].isconstant

\* C12: in every reachable state, in memory or persistent, cbytes equals the
\* sum of the cbytes of the chunks in the store plus chunksize, after any
\* sequence of construction, append, trim, resize and writes.
C12_Cbytes ==
    w.a.cbytes = StoredCbytes(w, chunks_len(w)) + chunksize(w)

\* the yields of an iterator driven by next() until it reports exhaustion,
\* raises, or reads outside a buffer; at most fuel values
RECURSIVE Drain(_, _)
Drain(wd, fuel) ==
    LET g == next(wd)
    IN IF g.stop \/ g.ub \/ ~Ok(g.w) \/ fuel = 0
       THEN [vals |-> <<>>, stop |-> g.stop, ub |-> g.ub, w |-> g.w]
       ELSE LET d == Drain(g.w, fuel - 1) IN [d EXCEPT !.vals = g.r \o @]

\* the elements of seq ranked skip+1 .. skip+limit; limit None is <<>>
SkipLimit(seq, limit, skip) ==
    LET rest == SubSeq(seq, skip + 1, Len(seq))
    IN IF limit = <<>> THEN rest ELSE SubSeq(rest, 1, Min(limit[1], Len(rest)))

\* C13: for a persistent array, after any sequence of append, trim and
\* resize followed by flush(), the data directory holds exactly the files
\* __0.blp ... __{ceil(N/chunklen)-1}.blp: no gap, and no file with an index
\* >= ceil(N/chunklen).
C13_DataFiles ==
    (op = "flush" /\ Ok(w) /\ w.a.rootdir) =>
        DOMAIN w.files = 0..(CeilDiv(len(w), w.a.chunklen) - 1)

\* C14: iter(start, stop, step, limit, skip) with positive step yields, in
\* order, exactly the elements of a[start:stop:step] after dropping the
\* first skip of them and keeping at most limit, also for a step larger
\* than chunklen and a start that is not chunk-aligned; each next() yields
\* one element until the sequence ends, and then reports exhaustion.
C14_Iter ==
    w.it.mode = "none" =>
        \A start_ \in Bnds, stop_ \in Bnds, step_ \in 1..MaxStep :
           \A limit \in Limits, skip \in Skips :
              LET i == iter(Clear(w), start_, stop_, step_, limit, skip)
                  d == Drain(i, MaxLen + 1)
                  start == slice_start(start_, len(w))
                  stop == slice_stop(stop_, len(w))
              IN /\ Ok(i)
                 /\ d.stop /\ ~d.ub
                 /\ d.vals = SkipLimit(Strided(Contents(w), start,
                                               Max(start, stop), step_),
                                       limit, skip)

\* the second element of a plain iteration with step 3 over chunks of two
\* rows: row 3, read from the second chunk
C14_Witness ==
    /\ op = "next" /\ Ok(w) /\ w.it.mode = "sss"
    /\ w.it.step = 3 /\ w.it.start = 0 /\ w.it.nrow = 3
    /\ Contents(w) = <<0, 0, 0, 1>> /\ ret = <<1>>

\* the indices (from 0) of the true rows, ascending
TrueIndices(rows) ==
    SelectSeq([k \in 1..Len(rows) |-> k - 1], LAMBDA i : rows[i + 1] # 0)

\* C15: wheretrue(limit=L, skip=S) on a boolean array yields, in ascending
\* order, exactly the indices of the true rows ranked S+1 .. S+L (fewer
\* when there are fewer true rows); the hit limit kept is L+S; constant
\* chunks of zeros, skipped without decompression, and buffers skipped
\* whole by the skip counter give the sequence of a row-by-row scan.
C15_WhereTrue ==
    (w.it.mode = "none" /\ w.a.isbool) =>
        \A limit \in Limits, skip \in Skips :
           LET i == wheretrue(Clear(w), limit, skip)
               d == Drain(i, MaxLen + 1)
           IN /\ Ok(i)
              /\ limit # <<>> => i.it.limit = limit[1] + skip
              /\ d.stop /\ ~d.ub
              /\ d.vals = SkipLimit(TrueIndices(Contents(w)), limit, skip)

\* the second true row found after a constant chunk of zeros was passed
\* over and the first hit was skipped
C15_Witness ==
    /\ op = "next" /\ Ok(w) /\ w.it.mode = "wheretrue" /\ ~w.a.rootdir
    /\ Contents(w) = <<0, 0, 1, 1>> /\ w.chunks[1].isconstant
    /\ w.it.skip = 1 /\ ret = <<3>>

\* the rows of a mask, and the rows of seq where the mask is true
MaskRows(boolarr) == IF boolarr.kind = "carray" THEN Contents(boolarr.carr) ELSE boolarr.rows
Selected(seq, mask) == [k \in 1..Len(TrueIndices(mask)) |-> seq[TrueIndices(mask)[k] + 1]]

\* C16: where(mask, limit=L, skip=S) yields, in index order, exactly the
\* values a[i] for the indices i with mask[i] true ranked S+1 .. S+L, for
\* a mask given as a carray (of any chunklen, with or without constant
\* chunks of zeros) or as a NumPy boolean array; a mask that is not
\* boolean or whose length differs from N is refused by where() itself,
\* before any element is yielded.
C16_Where ==
    w.it.mode = "none" =>
        /\ \A boolarr \in Masks(len(w), TRUE), limit \in Limits, skip \in Skips :
              LET i == where(Clear(w), boolarr, limit, skip)
                  d == Drain(i, MaxLen + 1)
              IN /\ Ok(i)
                 /\ d.stop /\ ~d.ub
                 /\ d.vals = SkipLimit(Selected(Contents(w), MaskRows(boolarr)),
                                       limit, skip)
        /\ \A boolarr \in BadMasks(len(w)) \ {[kind |-> "other"]} :
              LET i == where(Clear(w), boolarr, <<>>, 0)
              IN i.exc = "ValueError" /\ i.it = w.it

\* the value at the second true bit of a carray mask of chunklen 1, found
\* after the first hit was skipped
C16_Witness ==
    /\ op = "next" /\ Ok(w) /\ w.it.mode = "where"
    /\ w.it.where_arr.kind = "carray" /\ w.it.where_arr.carr.a.chunklen = 1
    /\ Contents(w) = <<0, 0, 0, 1>> /\ w.it.skip = 1 /\ w.it.nrow = 3
    /\ ret = <<1>>

\* C17: for a boolean array of length 10_000 that is true exactly at the
\* indices divisible by 17, wheretrue with skip = 3 and limit = 5 yields
\* the true indices ranked 4 to 8, which are [51, 68, 85, 102, 119]
\* (index 0 is the first true row).
C17_Example ==
    (w.it.mode = "none" /\ len(w) = Len(ExampleRows)) =>
        LET d == Drain(wheretrue(Clear(w), <<5>>, 3), 6)
        IN d.stop /\ ~d.ub /\ d.vals = <<51, 68, 85, 102, 119>>

\* the statement as given: the yields are [68, 85, 102, 119, 136]
C17_Original ==
    (w.it.mode = "none" /\ len(w) = Len(ExampleRows)) =>
        Drain(wheretrue(Clear(w), <<5>>, 3), 6).vals = <<68, 85, 102, 119, 136>>

\* the fifth and last yield of that iteration
C17_Witness ==
    /\ op = "next" /\ Ok(w) /\ w.it.mode = "wheretrue"
    /\ len(w) = Len(ExampleRows)
    /\ w.it.skip = 3 /\ w.it.limit = 8 /\ w.it.nhits = 8 /\ ret = <<119>>

\* C18: once an iterator (plain, where or wheretrue) has reported
\* exhaustion, every later next() reports exhaustion again, yields no value
\* and reads no released buffer, whichever way the end was reached: the
\* stop bound, the limit, a trailing constant chunk of zeros passed over,
\* or a last buffer skipped whole by the skip counter.
C18_Exhausted ==
    w.it.iter_exhausted =>
        LET g == next(Clear(w))
        IN g.stop /\ ~g.ub /\ g.r = <<>> /\ g.w.it.iter_exhausted

\* C19: on a persistent array opened in mode r, trim(k) for every
\* 0 < k <= N and resize(n) for every n # N fail with the read-only error
\* (IOError) and leave the length, the tail, every chunk file in data/ and
\* meta/sizes as they were before the call.
C19_ReadOnlyResize ==
    (w.a.rootdir /\ w.a.mode = "r") =>
        /\ \A k \in 1..len(w) :
              LET w2 == trim(Clear(w), k)
              IN /\ w2.exc = "IOError"
                 /\ len(w2) = len(w)
                 /\ w2.a.leftover = w.a.leftover
                 /\ w2.a.lastchunkarr = w.a.lastchunkarr
                 /\ w2.files = w.files
                 /\ w2.sizes = w.sizes
        /\ \A n \in (0..MaxLen) \ {len(w)} :
              LET w2 == resize(Clear(w), n)
              IN /\ w2.exc = "IOError"
                 /\ len(w2) = len(w)
                 /\ w2.a.leftover = w.a.leftover
                 /\ w2.a.lastchunkarr = w.a.lastchunkarr
                 /\ w2.files = w.files
                 /\ w2.sizes = w.sizes

\* C20: on an array in mode r, every write (scalar, slice, integer-array,
\* boolean-mask) and every append fails with the read-only error (IOError)
\* before any row, counter, tail byte or file is changed, for arrays
\* constructed with safe=True and with safe=False.
C20_ReadOnlyWrite ==
    w.a.mode = "r" =>
        LET ro == Raise(Clear(w), "IOError")
        IN /\ \A key \in Keys(w), v \in Values(w.a.isbool), hasdtype \in BOOLEAN :
                 setitem_int(Clear(w), key, Arr(<<v>>), hasdtype) = ro
           /\ \A start_ \in Bnds, stop_ \in Bnds, step_ \in Steps :
                 \A value \in WriteValues(RangeLen(w, start_, stop_, step_), Values(w.a.isbool)) :
                    setitem_slice(Clear(w), start_, stop_, step_, value, FALSE) = ro
           /\ \A key \in SeqsUpTo(2, Keys(w)) :
                 \A rows \in [1..Len(key) -> Values(w.a.isbool)] :
                    setitem_index(Clear(w), key, Arr(rows)) = ro
           /\ \A boolarr \in [1..len(w) -> 0..1] :
                 \A rows \in [1..SumSeq(boolarr) -> Values(w.a.isbool)] :
                    setitem_mask(Clear(w), boolarr, rows) = ro
           /\ \A array \in Arrays(MaxAppend, Values(w.a.isbool)) :
                 append(Clear(w), array) = ro

\* C21: on an on-disk chunk store in mode r, each of append, set, pop and
\* flush (of the tail) fails with the read-only error (IOError) and leaves
\* the number of chunks and every chunk file as they were.
C21_StoreReadOnly ==
    (w.a.rootdir /\ w.store.mode = "r") =>
        /\ \A rows \in SeqsUpTo(ChunkLen, Values(w.a.isbool)) :
              LET chunk_ == mkchunk(w, Arr(rows))
                  ro == Raise(Clear(w), "IOError")
              IN /\ store_append(Clear(w), chunk_) = ro
                 /\ store_flush(Clear(w), chunk_) = ro
                 /\ \A nchunk \in 0..w.store.nchunks :
                       store_save(Clear(w), nchunk, chunk_) = ro
        /\ LET g == store_pop(Clear(w))
           IN /\ g.w.exc = "IOError"
              /\ g.w.store.nchunks = w.store.nchunks
              /\ g.w.files = w.files

\* C22: a scalar read a[k] or a scalar write a[k] = v with an integer k that
\* is not a row of [0, N), that is k >= N or k < -N, fails with the
\* out-of-range error (IndexError): the read returns no row and the write
\* changes no row.
C22_IndexOutOfRange ==
    \A k \in ((-2 * len(w) - 1)..(len(w) + 1)) \ Keys(w) :
       /\ LET g == getitem_int(Clear(w), k)
          IN /\ g.w.exc = "IndexError"
             /\ g.r = <<>>
             /\ ~g.ub
       /\ w.a.mode # "r" =>
             \A v \in Values(w.a.isbool), hasdtype \in BOOLEAN :
                LET w2 == setitem_int(Clear(w), k, Arr(<<v>>), hasdtype)
                IN /\ w2.exc = "IndexError"
                   /\ Contents(w2) = Contents(w)

\* C23: a write that fails leaves the array as it was before the call: an
\* integer-array write a[[i1, ..., in]] = v in which some index is out of
\* range (here an index >= N, after or before indices in range) fails and
\* changes no row.
C23_FailedWriteKeeps ==
    w.a.mode # "r" =>
        \A key \in SeqsUpTo(2, (-len(w))..len(w)) :
           (\E i \in 1..Len(key) : key[i] = len(w)) =>
              \A rows \in [1..Len(key) -> Values(w.a.isbool)] :
                 LET w2 == setitem_index(Clear(w), key, Arr(rows))
                 IN /\ ~Ok(w2)
                    /\ Contents(w2) = Contents(w)

\* two views of one array, with iterator fields itA and itB, advanced by
\* next() in the order sched gives (1 for the first view, 2 for the second):
\* the values each yields, whether a read left a buffer, and the array and
\* the fields of the two views at the end
RECURSIVE Interleave(_, _, _, _)
Interleave(sh, itA, itB, sched) ==
    IF sched = <<>>
    THEN [a |-> <<>>, b |-> <<>>, ub |-> FALSE, w |-> sh, itA |-> itA, itB |-> itB]
    ELSE LET first == Head(sched) = 1
             g == next([Clear(sh) EXCEPT !.it = IF first THEN itA ELSE itB])
             rest == Interleave(g.w, IF first THEN g.w.it ELSE itA,
                                IF first THEN itB ELSE g.w.it, Tail(sched))
         IN [rest EXCEPT !.a = IF first THEN g.r \o @ ELSE @,
                         !.b = IF first THEN @ ELSE g.r \o @,
                         !.ub = @ \/ g.ub]

\* the iterators taken from an array: a plain one, one with a start and a
\* step, wheretrue() on a boolean array, where() with the ndarray mask that
\* is true at the even rows
IterationsOf(wd) ==
    {iter(wd, <<>>, <<>>, 1, <<>>, 0), iter(wd, <<1>>, <<>>, 2, <<>>, 0),
     where(wd, [kind |-> "ndarray", isbool |-> TRUE,
                rows |-> [i \in 1..len(wd) |-> i % 2]], <<>>, 0)}
    \cup {wheretrue(wd, <<>>, 0) : b \in {TRUE} \cap {wd.a.isbool}}

\* the array and the carray's own fields agree in two worlds
SameSource(w1, w2) ==
    /\ w1.a = w2.a
    /\ w1.self_it = w2.self_it
    /\ w1.chunks = w2.chunks
    /\ w1.files = w2.files
    /\ Contents(w1) = Contents(w2)

\* C24: making an iterator with iter(), where() or wheretrue() and consuming
\* it to exhaustion changes nothing in the source array: its rows, length,
\* mode, block cache (idxcache) and its own iterator fields are as before;
\* and two iterators made from the same array and advanced in any
\* interleaving each yield their own complete sequence.
C24_IterationFrame ==
    w.it.mode = "none" =>
        \A base \in {Clear(w)} \cup {getitem_int(Clear(w), k).w : k \in {0} \cap Keys(w)} :
           /\ \A i \in IterationsOf(base) :
                 LET d == Drain(i, MaxLen + 1)
                 IN /\ SameSource(i, base)
                    /\ d.stop /\ ~d.ub /\ d.w.it.iter_exhausted
                    /\ SameSource(d.w, base)
           /\ \A i \in IterationsOf(base), j \in IterationsOf(base) :
                 LET di == Drain(i, MaxLen + 1)
                     dj == Drain(j, MaxLen + 1)
                     n == Len(di.vals) + Len(dj.vals) + 2
                 IN \A sched \in [1..n -> 1..2] :
                       Cardinality({p \in 1..n : sched[p] = 1}) = Len(di.vals) + 1 =>
                          LET r == Interleave(j, i.it, j.it, sched)
                          IN /\ r.a = di.vals /\ r.b = dj.vals /\ ~r.ub
                             /\ r.itA.iter_exhausted /\ r.itB.iter_exhausted
                             /\ SameSource(r.w, base)

\* a wheretrue() iterator over a persistent array of two chunks has been
\* driven to exhaustion
C24_Witness ==
    /\ op = "next" /\ w.exc = "StopIteration" /\ w.it.iter_exhausted
    /\ w.it.mode = "wheretrue" /\ w.a.rootdir /\ len(w) = 2 * ChunkLen
    /\ w.self_it = NoSelfIter /\ w.a.idxcache = -1

\* the object obj (its fields and iterator fields) over the chunk store as
\* it is in the world shared
Over(obj, shared) ==
    [shared EXCEPT !.a = obj.a, !.it = obj.it, !.self_it = obj.self_it,
                   !.exc = "none"]

\* the rows of the tail: those after the last complete chunk
TailKeys(wd) == (nchunks(wd) * wd.a.chunklen)..(len(wd) - 1)

\* C25: view() returns a carray of the same length and equal rows that
\* shares the chunk store and has its own copy of the tail and its own block
\* cache: a later write to a tail row of the original does not change what
\* the view reads there, and a later write to a tail row of the view does
\* not change what the original reads.
C25_View ==
    LET v == view(Clear(w))
    IN /\ Ok(v)
       /\ len(v) = len(w)
       /\ Contents(v) = Contents(w)
       /\ getitem_slice(v, <<>>, <<>>, <<>>).r
             = getitem_slice(Clear(w), <<>>, <<>>, <<>>).r
       /\ v.chunks = w.chunks /\ v.store = w.store /\ v.files = w.files
       /\ v.a.idxcache = -1
       /\ \A k \in TailKeys(w), val \in Values(w.a.isbool) :
             /\ LET w2 == setitem_int(Clear(w), k, Arr(<<val>>), FALSE)
                IN getitem_int(Over(v, w2), k).r = getitem_int(Clear(w), k).r
             /\ LET v2 == setitem_int(v, k, Arr(<<val>>), FALSE)
                IN /\ Ok(v2) => getitem_int(Clear(v2), k).r = <<val>>
                   /\ getitem_int(Over(w, v2), k).r = getitem_int(Clear(w), k).r

\* a view was taken of a persistent array whose tail holds a row that is
\* not zero
C25_Witness ==
    /\ op = "view" /\ Ok(w) /\ w.a.ondisk /\ ~w.a.rootdir
    /\ nleftover(w) > 0 /\ w.a.lastchunkarr[1] # 0
    /\ len(w) > ChunkLen

\* C26: trim(k) with k = leftover rows > 0 empties the tail and leaves the
\* chunk store untouched: no chunk is popped, fetched or rewritten, the
\* number of chunks is the same and every row below N - k keeps its value.
C26_TrimTail ==
    nleftover(w) > 0 =>
        LET k == nleftover(w)
            w2 == trim(Clear(w), k)
        IN /\ Ok(w2)
           /\ len(w2) = len(w) - k
           /\ nleftover(w2) = 0
           /\ w2.chunks = w.chunks
           /\ w2.files = w.files
           /\ w2.store = w.store
           /\ chunks_len(w2) = chunks_len(w)
           /\ Contents(w2) = SubSeq(Contents(w), 1, len(w) - k)

\* a persistent array whose tail was trimmed away: the chunk is there, and
\* so is the file the tail was flushed to, which a trim that pops removes
C26_Witness ==
    /\ op = "trim" /\ Ok(w) /\ w.a.rootdir
    /\ nleftover(w) = 0 /\ chunks_len(w) = 1
    /\ DOMAIN w.files = {0, 1}

\* C27: an in-memory chunk built from a buffer with stride 0 along the
\* leading axis, or from a buffer whose bytes are all zero, is marked
\* constant, stores no compressed bytes (cbytes is 0, below nbytes), and
\* get(start, stop) on it returns the constant in every requested row, for
\* every 0 <= start <= stop <= chunklen.  So is every all-zero chunk an
\* in-memory array holds.
C27_ConstantChunk ==
    /\ \A n \in 1..ChunkLen, v \in Values(w.a.isbool) :
          \A array \in {Broadcast(v, n), Arr(Zeros(n))} :
             LET c == compress_arrdata(array, w.a.isbool, TRUE)
             IN /\ c.isconstant
                /\ c.constant = array.rows[1]
                /\ c.cbytes = 0 /\ c.cbytes < c.nbytes
                /\ c.nbytes = n * atomsize
                /\ \A stop \in 0..n :
                      \A start \in 0..stop :
                         /\ chunk_getitem(c, start, stop)
                               = [i \in 1..(stop - start) |-> array.rows[1]]
                         /\ chunk_slice(c, <<start>>, <<stop>>, 1)
                               = [i \in 1..(stop - start) |-> array.rows[1]]
    /\ ~w.a.ondisk =>
          \A i \in 1..Len(w.chunks) :
             LET rows == chunk_getitem(w.chunks[i], 0, w.a.chunklen)
             IN (\A j \in 1..Len(rows) : rows[j] = 0) =>
                   /\ w.chunks[i].isconstant
                   /\ w.chunks[i].cbytes = 0

\* an array in memory was appended to, and holds a chunk of zeros and a
\* constant chunk of a value that is not zero, which a stride-0 input made
C27_Witness ==
    /\ op = "append" /\ Ok(w) /\ ~w.a.ondisk
    /\ \E i \in 1..Len(w.chunks) :
          w.chunks[i].isconstant /\ w.chunks[i].constant # 0
    /\ \E i \in 1..Len(w.chunks) :
          w.chunks[i].isconstant /\ w.chunks[i].constant = 0

\* every chunk file holds a compressed buffer, the chunk the store caches
\* is not constant, and no save was asked of a constant chunk
StoreSound(wd) ==
    /\ wd.exc # "TypeError"
    /\ \A n \in DOMAIN wd.files :
          wd.files[n] # NoBuf /\ wd.files[n].cbytes >= BLOSC_HEADER_LENGTH
    /\ ~wd.store.chunk_cached.isconstant

\* C28: no chunk of a persistent array is ever constant: every chunk handed
\* to the on-disk store by construction, append, slice write, mask write
\* and flush carries compressed bytes, also when its rows are all zero or
\* come from a stride-0 input, so the store never asks a constant chunk for
\* its compressed data.  Stated of every object whose chunks are on disk.
C28_DiskNeverConstant ==
    w.a.ondisk =>
        /\ StoreSound(w)
        /\ StoreSound(flush(Clear(w)))
        /\ \A array \in {Arr(Zeros(n)) : n \in 1..MaxAppend}
                        \cup {Broadcast(v, n) : v \in Values(w.a.isbool), n \in 1..MaxAppend} :
              /\ ~mkchunk(w, array).isconstant
              /\ mkchunk(w, array).cbytes >= BLOSC_HEADER_LENGTH
              /\ StoreSound(append(Clear(w), array))
              /\ StoreSound(create_carray(array, w.a.dflt, w.a.isbool, ChunkLen, TRUE, "a"))
        /\ \A start \in 0..len(w), v \in Values(w.a.isbool) :
              \A stop \in start..len(w) :
                 \A value \in ScalarValues(v, stop - start) :
                    StoreSound(setitem_slice(Clear(w), <<start>>, <<stop>>, <<>>, value, FALSE))
        /\ \A boolarr \in [1..len(w) -> 0..1] :
              StoreSound(setitem_mask(Clear(w), boolarr, Zeros(SumSeq(boolarr))))

\* the calls that run in the calling thread alone (the context-local codec
\* calls, the copy of a constant, and blosc_getitem, which starts no
\* thread), and the switch settings: True, False and None (adaptive)
SerialCalls ==
    {"memcpy", "blosc_getitem", "blosc_compress_ctx", "blosc_decompress_ctx"}
UseThreads == {<<>>, <<TRUE>>, <<FALSE>>}

\* C29: when the use-threads switch is off, or is adaptive and the call
\* comes from a thread other than the main thread, every compression and
\* every decompression (whole-chunk decode, block-range decode for slices
\* and the block cache, object-chunk decode, tail reload on open) goes
\* through the serial context-local codec path; the shared multi-threaded
\* path is used only when threads are allowed.
C29_SerialCodec ==
    \A use_threads \in UseThreads, main_thread \in BOOLEAN :
       ~get_use_threads(use_threads, main_thread) =>
          /\ \A site \in {"compress", "getudata", "open"} :
                blosc_call(site, NoChunk, 0, 0, use_threads, main_thread)
                   \in SerialCalls
          /\ \A i \in 0..(chunks_len(w) - 1) :
                \A stop \in 0..w.a.chunklen :
                   \A start \in 0..stop :
                      blosc_call("getitem", StoredChunk(w, i), start, stop,
                                 use_threads, main_thread) \in SerialCalls

\* Whether a directory holds a complete array (it exists and no chunk file
\* of it is missing), and the rows of that array
HeldRows(dir) ==
    IF dir = <<>> THEN [held |-> FALSE, rows |-> <<>>]
    ELSE LET o == open_carray(dir[1], "r")
         IN IF ~Ok(o) \/ (0..(chunks_len(o) - 1)) \ DOMAIN o.files # {}
            THEN [held |-> FALSE, rows |-> <<>>]
            ELSE [held |-> TRUE, rows |-> Contents(o)]

\* C30: while a persistent carray is reshaped its root directory holds a
\* complete array at every instant, the original one until the rename and
\* the reshaped copy from the rename on, and a failure at any step before
\* the rename leaves the original root directory as it was.
C30_ReshapeRoot ==
    /\ HeldRows(w.root) = [held |-> TRUE, rows |-> Contents(w.self)]
    /\ w.pc # "done" => w.root = DirOf(w.self)
    /\ w.pc = "done" => w.root = DirOf(w.out)
    /\ w.pc = "failed" => w.root = DirOf(w.self)

\* C31: creating a persistent carray at a root path that exists fails with
\* the "already exists" IOError when the mode is not "w" and leaves the path
\* and what it holds as they were; with mode "w" the directory or file is
\* removed and a fresh layout takes its place, which holds the data of the
\* new array only (it is the layout the same creation makes at a free path).
C31_RootExists ==
    \A dt \in Dtypes, mode \in CreateModes :
    \A rows \in SeqsUpTo(MaxInit, Values(dt[1])) :
       LET r == carray_at(w.root, Arr(rows), dt[2], dt[1], ChunkLen, mode)
           free == carray_at(<<>>, Arr(rows), dt[2], dt[1], ChunkLen, mode)
       IN w.root # <<>> =>
             IF mode # "w"
             THEN r.w.exc = "IOError" /\ r.path = w.root
             ELSE /\ Ok(r.w)
                  /\ r.path = free.path
                  /\ r.path = DirOf(r.w)
                  /\ HeldRows(r.path) = [held |-> TRUE, rows |-> rows]

C31_Witness ==
    /\ op = "carray"
    /\ ret = <<"a", TRUE>>
    /\ w.c.exc = "IOError"
    /\ w.root # PlainFile
    /\ DOMAIN w.root[1].files # {}

\* C32: opening an existing root directory with mode "w" gives an array of
\* length 0 with no chunk in the store and no row in the tail, whatever
\* length was stored, and leaves meta/sizes with length 0, so that opening
\* the directory again in mode "a" gives length 0 too.
C32_OpenW ==
    LET o == open_carray(w, "w")
        again == open_carray(o, "a")
    IN /\ Ok(o)
       /\ len(o) = 0
       /\ chunks_len(o) = 0
       /\ nleftover(o) = 0
       /\ o.sizes.shape = 0
       /\ Ok(again)
       /\ len(again) = 0

C32_Witness ==
    /\ op = "open"
    /\ w.a.mode = "w"
    /\ len(w) = 0
    /\ w.sizes.shape = 0
    /\ DOMAIN w.files # {}

\* C33: sum() with no dtype given adds booleans and the integers narrower
\* than the platform integer, signed and unsigned, in the platform signed
\* integer, so that the sum of such an array never wraps modulo 2^(bits of
\* an element): it is what sum() adds up when no addition wraps.
C33_SumWidens ==
    (w.base.kind \in {"b", "i", "u"} /\ w.base.itemsize < IntType.itemsize)
        => /\ sum_dtype(w.base) = IntType
           /\ sum_as(Clear(w)).r = sum(Clear(w)).r

\* C34: in the chunk store on disk, after any sequence of reads, appends,
\* writes, pops and flushes of the tail, reading chunk i, for every i below
\* the length of the store, gives a chunk whose compressed bytes are what
\* file __i.blp holds now: the one chunk the store caches is never given
\* for an index whose file was written or removed since.
C34_StoreCacheFresh ==
    w.a.ondisk =>
       \A i \in 0..(chunks_len(w) - 1) :
          LET g == store_getitem(Clear(w), i)
          IN Ok(g.w) => /\ i \in DOMAIN w.files
                        /\ g.r.dobject = w.files[i]

\* C35: when only appends were made to a persistent carray since its last
\* flush and the process stops without flushing, opening the root anew
\* gives the array of that last flush, of the same length and with the
\* same rows: the chunk files the appends wrote, the one written over the
\* file of the flushed tail among them, change none of those rows.
C35_ReopenFlushed ==
    LET o == open_carray(w.c, "a")
    IN /\ Ok(o)
       /\ len(o) = Len(w.flushed)
       /\ Contents(o) = w.flushed

\* an append filled the flushed tail and wrote its chunk over the tail's
\* file, and the array was opened anew without a flush
C35_Witness ==
    /\ op = "open"
    /\ Ok(w.c)
    /\ nleftover(w.c) > 0
    /\ w.c.files[chunks_len(w.c)].nbytes = chunksize(w.c)
    /\ Contents(w.c) = w.flushed

\* C36: cbytes is never negative, in any state an array in memory or on
\* disk reaches by appends, trims, resizes and writes.
C36_CbytesNonNegative == w.a.cbytes >= 0

\* C37: whenever the block cache decodes a block, its buffer has room for
\* it: no scalar read, in any order of reads over an array whose chunks
\* have blocks of different sizes, decodes more rows into the buffer than
\* the buffer was allocated for.
C37_CacheRoom ==
    \A pos \in 0..(len(w) - 1) : ~getitem_cache(Clear(w), pos).over

\* C38: for every 0 < k <= N, trim(k), and with it resize(N - k) and the
\* resize to 0 of an open in mode "w", takes exactly k * atomsize off
\* nbytes, also when k * atomsize does not fit a signed integer of 32 bits:
\* the bytes trimmed are not counted modulo 2^32.
C38_TrimBytes ==
    \A k \in 1..(w.nbytes \div w.atomsize) :
       LET t == trim_counters(w, k)
       IN /\ t.exc = "none"
          /\ t.nbytes = w.nbytes - k * w.atomsize

\* C39: a view or an iterator made when the array had N rows goes on reading
\* those N rows, the same values in the same order, while the original is
\* appended to, also when an append turns the tail of the original into a
\* chunk of the store the two share.
C39_ViewKeepsRows ==
    LET v == view(Clear(w))
        i == iter(v, <<>>, <<>>, 1, <<>>, 0)
        rows == getitem_slice(Clear(w), <<>>, <<>>, <<>>)
    IN (Ok(rows.w) /\ ~rows.ub) =>
       \A array \in Arrays(MaxAppend, Values(w.a.isbool)) :
          LET w2 == append(Clear(w), array)
              v2 == Over(v, w2)
              d == Drain(Over(i, w2), MaxLen + 1)
          IN Ok(w2) =>
                /\ len(v2) = Len(rows.r)
                /\ getitem_slice(v2, <<>>, <<>>, <<>>).r = rows.r
                /\ \A k \in 0..(len(v2) - 1) :
                      LET g == getitem_int(v2, k)
                      IN Ok(g.w) /\ ~g.ub /\ g.r = <<rows.r[k + 1]>>
                /\ d.stop /\ ~d.ub /\ d.vals = rows.r

\* a view was taken of an array that has chunks and rows in its tail, and
\* an append to the original fills that tail into a new chunk of the store
C39_Witness ==
    /\ op = "view" /\ Ok(w)
    /\ nleftover(w) > 0 /\ chunks_len(w) > 0
    /\ \E array \in Arrays(MaxAppend, Values(w.a.isbool)) :
          LET w2 == append(Clear(w), array)
          IN /\ Ok(w2) /\ chunks_len(w2) > chunks_len(w)
             /\ getitem_slice(Over(view(Clear(w)), w2), <<>>, <<>>, <<>>).r
                   = Contents(w)

====
